---------------------------- MODULE Spec2Model ----------------------------
(***************************************************************************)
(* A model of the option-block generator of obg: Generator.setup / run     *)
(* (api.py), the branching search of Node (tree.py) over the four          *)
(* processes (process.py), the State placement heuristic and the clash     *)
(* statistics (statistics.py), and EvaluationUtility.evaluate_blocks       *)
(* (evaluation.py).                                                        *)
(*                                                                         *)
(* Conventions.  Subjects are the numbers 1..NumSubjects; their numeric    *)
(* order stands for the string order sorted() uses.  Block indexes are     *)
(* 1-based here (block i of the model is blocks[i-1] of the code).  A      *)
(* percentage is held in hundredths (10000 = 100.00).  An Optional value   *)
(* is the empty tuple (None) or a one-element tuple.                       *)
(***************************************************************************)
EXTENDS Integers, Sequences, FiniteSets, TLC

\* ------------------------------------------------------------------ bounds
NumSubjects == 3
NumStudents == 2
MaxChoices == 2
MaxBlocks == 3
MaxClassSize == 2
MaxLimit == 2
MaxCalls == 2
MaxApiCalls == 3
WideSubjects == 4
MaxEvalStudents == 3
MaxEvalBlocks == 2
MaxSubjectsBound == 3
MaxEvaluateCalls == 4
MaxObjects == 4
MaxChain == 3
ScenarioBlocks == 2
PriorityStudents == 1
MaxSweepStudents == 2
QuartileBlocks == 2
NumWorkers == 2
DeepSubjects == 2
DeepBlocks == 4
MaxCycleCalls == 4
PoolBlocks == 2
ScoreStudents == 2
MaxScorings == 2

\* ------------------------------------------------------- program constants
STARTING_PROCESS == 0
NumProcesses == 4
FAILED_OPTION_PRIORITY == 2
MULTIPROCESS_THRESHOLD == 50
\* DEFAULT_PRIORITY_QUARTILE = 0.75, in hundredths
DEFAULT_PRIORITY_QUARTILE == 75

Subject == 1..NumSubjects

\* ----------------------------------------------------------- sequence help
Range(s) == {s[i] : i \in DOMAIN s}

Contains(s, x) == \E i \in DOMAIN s : s[i] = x

NoDup(s) == \A i, j \in DOMAIN s : i # j => s[i] # s[j]

\* the sequences over S of length <= n without a repeated element
DistinctSeqs(S, n) == UNION {{q \in [1..k -> S] : NoDup(q)} : k \in 0..n}

\* the permutations of a finite set, as sequences
Perms(S) == {q \in [1..Cardinality(S) -> S] : NoDup(q)}

\* s without its element at position i
RemoveAt(s, i) == [j \in 1..(Len(s) - 1) |-> IF j < i THEN s[j] ELSE s[j + 1]]

\* list.remove(x): s without the first occurrence of x
RemoveFirst(s, x) ==
    IF ~Contains(s, x) THEN s
    ELSE RemoveAt(s, CHOOSE i \in DOMAIN s : s[i] = x /\ \A j \in 1..(i - 1) : s[j] # x)

\* sorted(S) for a set of subjects: ascending
RECURSIVE SortedSeq(_)
SortedSeq(S) ==
    IF S = {} THEN <<>>
    ELSE LET m == CHOOSE x \in S : \A y \in S : x <= y
         IN <<m>> \o SortedSeq(S \ {m})

\* sorted(s) for a list
sorted(s) == SortedSeq(Range(s))

RECURSIVE SumSeq(_)
SumSeq(s) == IF s = <<>> THEN 0 ELSE Head(s) + SumSeq(Tail(s))

\* ------------------------------------------------- statistics.py, functions

\* clash_count(subjects, data): the students whose options hold every one of
\* set(subjects); the match is compared with len(subjects), so a pair (x, x)
\* counts nobody
clash_count(subjects, d) ==
    Cardinality({k \in DOMAIN d :
        Cardinality({x \in Range(subjects) : Contains(d[k], x)}) = Len(subjects)})

\* tuple(sorted((a, b)))
SortedPair(a, b) == IF a <= b THEN <<a, b>> ELSE <<b, a>>

\* clash_matrix(option_codes): combinations(option_codes, 2), each pair sorted
RECURSIVE clash_matrix(_)
clash_matrix(codes) ==
    IF Len(codes) < 2 THEN <<>>
    ELSE [i \in 1..(Len(codes) - 1) |-> SortedPair(codes[1], codes[i + 1])]
         \o clash_matrix(Tail(codes))

\* subject_popularity(data, option_codes): how often each option is chosen
subject_popularity(d, codes) ==
    [o \in Range(codes) |->
        SumSeq([k \in DOMAIN d |-> Cardinality({i \in DOMAIN d[k] : d[k][i] = o})])]

\* the class count calculate_classes gives one subject
ClassesFor(count, size, maximum) ==
    LET first == 0
        classes == IF first = size THEN 1 ELSE (count \div size) + 1
    IN IF maximum # 0 /\ classes > maximum THEN maximum ELSE classes

\* calculate_classes(popularity, class_size=, maximum=)
calculate_classes(popularity, size, maximum) ==
    [o \in DOMAIN popularity |-> ClassesFor(popularity[o], size, maximum)]

\* filter_classes(classes, value, operation) with operation eq (ge when AtLeast),
\* as the list of its keys in the order of the classes dict (the option order)
filter_classes(classes, order, value, AtLeast) ==
    LET Keep(o) == IF AtLeast THEN classes[o] >= value ELSE classes[o] = value
    IN SelectSeq(order, Keep)

\* subject_block_count(option_codes, blocks) for one option: the blocks, not
\* yet consumed, that hold it
subject_block_count(option, blocks, consumed) ==
    Cardinality({b \in DOMAIN blocks : b \notin consumed /\ Contains(blocks[b], option)})

\* CachedStats.subject_block_clashes(subject_code, block)
subject_block_clashes(subject, block, d) ==
    SumSeq([i \in DOMAIN block |-> clash_count(SortedPair(block[i], subject), d)])

\* CachedStats.total_block_count(subject_code, blocks)
total_block_count(subject, blocks, d) ==
    [b \in DOMAIN blocks |-> subject_block_clashes(subject, blocks[b], d)]

\* ------------------------------------------------------ statistics.State

\* a State as Generator.setup builds it: empty blocks, nothing used
NewState(nblocks, classes) ==
    [blocks |-> [b \in 1..nblocks |-> <<>>],
     classes |-> classes,
     used |-> {},
     process_index |-> STARTING_PROCESS,
     allow_branching |-> TRUE]

\* raw_insert without the decrement of the subject's class count
raw_insert_keeping_count(st, subject, index) ==
    IF subject \notin DOMAIN st.classes
    THEN [raised |-> "SubjectNotFound", st |-> st]
    ELSE IF Contains(st.blocks[index], subject)
    THEN [raised |-> "SubjectAlreadyExists", st |-> st]
    ELSE [raised |-> "none",
          st |-> [st EXCEPT !.used = @ \cup {subject},
                            !.blocks[index] = Append(@, subject)]]

\* raw_insert without the check that the block holds the subject already
raw_insert_unchecked(st, subject, index) ==
    IF subject \notin DOMAIN st.classes
    THEN [raised |-> "SubjectNotFound", st |-> st]
    ELSE [raised |-> "none",
          st |-> [st EXCEPT !.used = @ \cup {subject},
                            !.blocks[index] = Append(@, subject),
                            !.classes[subject] = @ - 1]]

\* State.raw_insert(subject=, index=): the exception it raises ("none" when it
\* returns) and the state it leaves
raw_insert(st, subject, index) ==
    IF subject \notin DOMAIN st.classes
    THEN [raised |-> "SubjectNotFound", st |-> st]
    ELSE IF Contains(st.blocks[index], subject)
    THEN [raised |-> "SubjectAlreadyExists", st |-> st]
    ELSE [raised |-> "none",
          st |-> [st EXCEPT !.used = @ \cup {subject},
                            !.blocks[index] = Append(@, subject),
                            !.classes[subject] = @ - 1]]

\* State.populate_block(subject=, index=): raw_insert with both subject
\* errors turned into the answer False
populate_block(st, subject, index) ==
    LET r == raw_insert(st, subject, index)
    IN [ok |-> r.raised = "none", st |-> r.st]

\* State.populate_all_blocks(subject=): populate_block on every block in turn,
\* here from block `from` on
RECURSIVE populate_all_from(_, _, _)
populate_all_from(st, subject, from) ==
    IF from > Len(st.blocks) THEN st
    ELSE populate_all_from(populate_block(st, subject, from).st, subject, from + 1)

populate_all_blocks(st, subject) == populate_all_from(st, subject, 1)

\* _find_duplicates without the test that the block does not hold the subject
find_duplicates_holding(st, block_clashes, matching, subject) ==
    LET Dup(e) == e[2] = matching /\ st.blocks[e[1]] # <<>>
        hits == SelectSeq(block_clashes, Dup)
    IN [i \in DOMAIN hits |-> hits[i][1]]

\* _find_duplicates without the test that the block is not empty
find_duplicates_any(st, block_clashes, matching, subject) ==
    LET Dup(e) == e[2] = matching /\ ~Contains(st.blocks[e[1]], subject)
        hits == SelectSeq(block_clashes, Dup)
    IN [i \in DOMAIN hits |-> hits[i][1]]

\* State._find_duplicates(block_clashes, matching, subject): the blocks of the
\* clash list whose count matches, that are not empty and do not hold the subject
find_duplicates(st, block_clashes, matching, subject) ==
    LET Dup(e) == /\ e[2] = matching
                  /\ Len(st.blocks[e[1]]) > 0
                  /\ ~Contains(st.blocks[e[1]], subject)
        hits == SelectSeq(block_clashes, Dup)
    IN [i \in DOMAIN hits |-> hits[i][1]]

\* min(clashes) that answers the last entry with the smallest count
MinClash_last(clashes) ==
    LET i == CHOOSE k \in DOMAIN clashes :
                 /\ \A j \in DOMAIN clashes : clashes[k][2] <= clashes[j][2]
                 /\ \A j \in (k + 1)..Len(clashes) : clashes[j][2] > clashes[k][2]
    IN clashes[i]

\* min(clashes, key=lambda x: x[1]): the first entry with the smallest count
MinClash(clashes) ==
    LET i == CHOOSE k \in DOMAIN clashes :
                 /\ \A j \in DOMAIN clashes : clashes[k][2] <= clashes[j][2]
                 /\ \A j \in 1..(k - 1) : clashes[j][2] > clashes[k][2]
    IN clashes[i]

\* what a placement or a process run ends with: kind "ok", "branch" (the
\* BranchRequired interrupt, with its subject and options) or "error"
\* (SubjectError); st is the state as it is left
Outcome(kind, st, subject, opts) ==
    [kind |-> kind, st |-> st, subject |-> subject, options |-> opts]

Done(st) == Outcome("ok", st, 0, <<>>)

\* list(enumerate(self.stats.total_block_count(subject, blocks)))
clash_list(st, subject, d) ==
    LET counts == total_block_count(subject, st.blocks, d)
    IN [b \in DOMAIN counts |-> <<b, counts[b]>>]

RECURSIVE place_one(_, _, _)

\* the end of one pass of the while loop of auto_populate: the block was
\* filled, or it is dropped from the clash list and the loop goes on
place_filled(filled, st, subject, clashes, least) ==
    IF filled.ok THEN Done(filled.st)
    ELSE place_one(st, subject, RemoveFirst(clashes, least))

\* one pass of the while loop of auto_populate, for the least clashing block:
\* BranchRequired when several blocks match it, else populate_block
place_least(st, subject, clashes, least, duplicates) ==
    IF Len(duplicates) > 1 /\ st.allow_branching
    THEN Outcome("branch", st, subject, duplicates)
    ELSE place_filled(populate_block(st, subject, least[1]), st, subject, clashes, least)

place_at(st, subject, clashes, least) ==
    place_least(st, subject, clashes, least,
                find_duplicates(st, clashes, least[2], subject))

\* the while loop of State.auto_populate for one class of the subject; with no
\* block left it ends in SubjectError
place_one(st, subject, clashes) ==
    IF Len(clashes) = 0
    THEN Outcome("error", st, subject, <<>>)
    ELSE place_at(st, subject, clashes, MinClash(clashes))

RECURSIVE auto_populate(_, _, _, _)

\* the end of one iteration of auto_populate
auto_next(r, subject, iterations, d) ==
    IF r.kind = "ok" THEN auto_populate(r.st, subject, iterations - 1, d) ELSE r

\* auto_populate without the check that the subject has a class left
auto_populate_unguarded(st, subject, iterations, d) ==
    IF iterations = 0
    THEN Done(st)
    ELSE auto_next(place_one(st, subject, clash_list(st, subject, d)),
                   subject, iterations, d)

\* State.auto_populate(subject=, iterations=)
auto_populate(st, subject, iterations, d) ==
    IF iterations = 0 \/ st.classes[subject] <= 0
    THEN Done(st)
    ELSE auto_next(place_one(st, subject, clash_list(st, subject, d)),
                   subject, iterations, d)

\* ---------------------------------------------------------------- process.py

\* PriorityPairs.ready_cache: the pairs of single-class subjects whose clash
\* count is at least the entry of the distinct counts at index
\* int(priority_quartile * len(unique)).  list(set(...)) of small counts
\* comes out ascending.
priority_pairs(st, order, d) ==
    LET singles == filter_classes(st.classes, order, 1, FALSE)
        matrix == clash_matrix(singles)
        unique == SortedSeq({clash_count(matrix[i], d) : i \in DOMAIN matrix})
        quartile == unique[((DEFAULT_PRIORITY_QUARTILE * Len(unique)) \div 100) + 1]
        Priority(clash) == clash_count(clash, d) >= quartile
    IN IF Len(unique) >= 1 THEN SelectSeq(matrix, Priority) ELSE <<>>

\* RemainingPairs.ready_cache: set(used).symmetric_difference(singles.keys())
remaining_set(st, order) ==
    LET singles == Range(filter_classes(st.classes, order, 1, FALSE))
    IN (st.used \ singles) \cup (singles \ st.used)

RECURSIVE populate_each(_, _, _, _)

populate_rest(r, subjects, iterations, d) ==
    IF r.kind # "ok" THEN r ELSE populate_each(r.st, subjects, iterations, d)

\* for subject in subjects: self.state.auto_populate(subject, iterations); an
\* interrupt or error of auto_populate ends the loop
populate_each(st, subjects, iterations, d) ==
    IF subjects = <<>> THEN Done(st)
    ELSE populate_rest(auto_populate(st, Head(subjects), iterations, d),
                       Tail(subjects), iterations, d)

\* the subjects PriorityPairs.run_process places, in order: first and second
\* of every cached pair
RECURSIVE pair_subjects(_)
pair_subjects(pairs) ==
    IF pairs = <<>> THEN <<>> ELSE Head(pairs) \o pair_subjects(Tail(pairs))

\* PriorityPairs.run_process
run_priority_pairs(st, pairs, d) == populate_each(st, pair_subjects(pairs), 1, d)

\* RemainingPairs.run_process
run_remaining_pairs(st, subjects, d) == populate_each(st, subjects, 1, d)

RECURSIVE run_main_from(_, _, _, _)

run_main_next(r, use, order, d) ==
    IF r.kind # "ok" THEN r ELSE run_main_from(r.st, use - 1, order, d)

\* MainProcess.run_process from `use` down to 1: the subjects with exactly
\* `use` classes left are placed, each for `use` iterations
run_main_from(st, use, order, d) ==
    IF use < 1 THEN Done(st)
    ELSE run_main_next(
             populate_each(st, filter_classes(st.classes, order, use, FALSE), use, d),
             use, order, d)

\* MainProcess.run_process for the greatest `use` only, len(blocks) - 1
run_main_process_once(st, order, d) ==
    populate_each(st, filter_classes(st.classes, order, Len(st.blocks) - 1, FALSE),
                  Len(st.blocks) - 1, d)

\* MainProcess.run_process: use = len(blocks) - 1 down to 1
run_main_process(st, order, d) == run_main_from(st, Len(st.blocks) - 1, order, d)

\* populate_block on the first block for each of the subjects
RECURSIVE populate_each_first(_, _)
populate_each_first(st, subjects) ==
    IF subjects = <<>> THEN st
    ELSE populate_each_first(populate_block(st, Head(subjects), 1).st, Tail(subjects))

\* Negligible.run_process: the subjects with at least len(blocks) classes go
\* into every block
RECURSIVE run_negligible_subjects(_, _)
run_negligible_subjects(st, subjects) ==
    IF subjects = <<>> THEN st
    ELSE run_negligible_subjects(populate_all_blocks(st, Head(subjects)), Tail(subjects))

\* Negligible.run_process putting each subject into the first block only
run_negligible_first(st, order) ==
    Done(populate_each_first(st, filter_classes(st.classes, order, Len(st.blocks), TRUE)))

run_negligible(st, order) ==
    Done(run_negligible_subjects(st,
            filter_classes(st.classes, order, Len(st.blocks), TRUE)))

\* PROCESSES[index].run_process on a state, with the process caches ready
run_process(index, st, pairs, remaining, order, d) ==
    CASE index = 0 -> run_priority_pairs(st, pairs, d)
      [] index = 1 -> run_remaining_pairs(st, remaining, d)
      [] index = 2 -> run_main_process(st, order, d)
      [] OTHER -> run_negligible(st, order)

\* ------------------------------------------------------------ evaluation.py

\* the value of a `prioritise` argument that is None
NoPriority == -1

Tried(raised, handled) == [raised |-> raised, handled |-> handled]

\* dict.fromkeys(options): the options without repeats, first occurrences kept
RECURSIVE DictKeys(_)
DictKeys(s) ==
    IF s = <<>> THEN <<>>
    ELSE LET front == DictKeys(SubSeq(s, 1, Len(s) - 1))
         IN IF Contains(front, s[Len(s)]) THEN front ELSE Append(front, s[Len(s)])

\* the subject a pass of try_against_blocks takes up: with order, the first
\* of sorted(counts.items(), key=count), else the first option
pick_subject(keys, blocks, consumed, order) ==
    IF ~order THEN keys[1]
    ELSE keys[CHOOSE i \in DOMAIN keys :
                /\ \A j \in DOMAIN keys :
                      subject_block_count(keys[i], blocks, consumed)
                          <= subject_block_count(keys[j], blocks, consumed)
                /\ \A j \in 1..(i - 1) :
                      subject_block_count(keys[j], blocks, consumed)
                          > subject_block_count(keys[i], blocks, consumed)]

\* the first block, not yet consumed, that holds the subject; 0 when none does
first_block(blocks, consumed, subject) ==
    LET holding == {b \in DOMAIN blocks :
                       b \notin consumed /\ Contains(blocks[b], subject)}
    IN IF holding = {} THEN 0 ELSE CHOOSE b \in holding : \A c \in holding : b <= c

RECURSIVE try_loop(_, _, _, _, _, _, _, _)

\* try_subject that leaves the block it found usable for a later choice
try_subject_reusing(blocks, consumed, options, handled, iters, order, raise_exceptions, prioritise, subject, block) ==
    IF block = 0 /\ prioritise # NoPriority /\ prioritise > Len(handled)
    THEN Tried("PriorityFailed", handled)
    ELSE IF block = 0 /\ raise_exceptions
    THEN Tried("EvaluationFailed", handled)
    ELSE try_loop(blocks, consumed, RemoveFirst(options, subject),
                  IF block = 0 THEN handled ELSE Append(handled, <<subject, block>>),
                  iters - 1, order, raise_exceptions, prioritise)

\* one pass of the loop for the subject taken up, found in `block` (0: in none)
try_subject(blocks, consumed, options, handled, iters, order, raise_exceptions, prioritise, subject, block) ==
    IF block = 0 /\ prioritise # NoPriority /\ prioritise > Len(handled)
    THEN Tried("PriorityFailed", handled)
    ELSE IF block = 0 /\ raise_exceptions
    THEN Tried("EvaluationFailed", handled)
    ELSE try_loop(blocks,
                  IF block = 0 THEN consumed ELSE consumed \cup {block},
                  RemoveFirst(options, subject),
                  IF block = 0 THEN handled ELSE Append(handled, <<subject, block>>),
                  iters - 1, order, raise_exceptions, prioritise)

try_pick(blocks, consumed, options, handled, iters, order, raise_exceptions, prioritise, subject) ==
    try_subject(blocks, consumed, options, handled, iters, order, raise_exceptions,
                prioritise, subject, first_block(blocks, consumed, subject))

\* the loop of EvaluationUtility.try_against_blocks; consumed are the blocks
\* already set to None, iters the iterations still to make.  The count of the
\* subject taken up is 0 exactly when no unconsumed block holds it.
try_loop(blocks, consumed, options, handled, iters, order, raise_exceptions, prioritise) ==
    IF iters = 0
    THEN Tried("none", handled)
    ELSE try_pick(blocks, consumed, options, handled, iters, order, raise_exceptions,
                  prioritise, pick_subject(DictKeys(options), blocks, consumed, order))

\* the closing assertion of try_against_blocks
try_checked(r, required_iters, raise_exceptions) ==
    IF r.raised = "none" /\ raise_exceptions /\ Len(r.handled) # required_iters
    THEN Tried("AssertionError", r.handled)
    ELSE r

\* EvaluationUtility.try_against_blocks(blocks, options, order, raise_exceptions,
\* prioritise)
try_against_blocks(blocks, options, order, raise_exceptions, prioritise) ==
    try_checked(try_loop(blocks, {}, options, <<>>, Len(options), order,
                         raise_exceptions, prioritise),
                Len(options), raise_exceptions)

\* prioritise_failed trying the options by count instead of as declared
prioritise_failed_ordered(blocks, options, level) ==
    try_against_blocks(blocks, options, TRUE, FALSE, level)

\* EvaluationUtility.prioritise_failed(blocks, options, level): a PriorityFailed
\* is caught and returned
prioritise_failed(blocks, options, level) ==
    try_against_blocks(blocks, options, FALSE, FALSE, level)

\* EvaluationUtility.options.get("failed_priority"): NoPriority for a utility
\* built without options, as the generator builds its utilities
VARIABLE failed_priority

\* the level evaluate_blocks passes on
FailedPriorityOption == failed_priority

\* _set_success_percentage with the quotient cut off after two decimals
set_success_percentage_truncated(success, total) == (10000 * success) \div total

\* EvaluatedObject._set_success_percentage: round(success / total * 100, 2), in
\* hundredths.  For fewer than 32 students no quotient lies on a tie, and the
\* float quotient rounds as the exact one does.
set_success_percentage(success, total) ==
    LET q == (10000 * success) \div total
        r == (10000 * success) % total
    IN IF 2 * r < total THEN q
       ELSE IF 2 * r > total THEN q + 1
       ELSE IF q % 2 = 0 THEN q ELSE q + 1

\* an EvaluatedObject as its constructor leaves it
NewEvaluation ==
    [blocks |-> <<>>, has_blocks |-> FALSE, successful_options |-> <<>>,
     failed_options |-> <<>>, total_students |-> 0, success_percentage |-> 0,
     evaluated |-> FALSE, raised |-> "none"]

\* the except branch of evaluate_blocks: the failed student is filed with what
\* prioritise_failed gave
file_failed(ev, key, options, prioritised) ==
    [ev EXCEPT !.failed_options =
        @ @@ (key :> [options |-> options, priorties |-> prioritised])]

\* file_student with a failed match raised on like any other exception
file_student_aborting(ev, blocks, key, d, opts) ==
    IF opts.raised = "none"
    THEN [ev EXCEPT !.successful_options = @ @@ (key :> opts.handled)]
    ELSE [ev EXCEPT !.raised = opts.raised]

\* the student `key` filed by what try_against_blocks ended with; another
\* exception than EvaluationFailed leaves evaluate_blocks
file_student(ev, blocks, key, d, opts) ==
    IF opts.raised = "none"
    THEN [ev EXCEPT !.successful_options = @ @@ (key :> opts.handled)]
    ELSE IF opts.raised = "EvaluationFailed"
    THEN file_failed(ev, key, d[key],
                     prioritise_failed(blocks, d[key], FailedPriorityOption))
    ELSE [ev EXCEPT !.raised = opts.raised]

\* one pass of the loop of evaluate_blocks: the student `key` is tried against
\* the blocks and filed under successful_options or failed_options
evaluate_student(ev, blocks, key, d) ==
    file_student(ev, blocks, key, d,
                 try_against_blocks(blocks, d[key], TRUE, TRUE, NoPriority))

\* the end of evaluate_blocks: the percentage (its assertion needs a student),
\* the blocks and the evaluated flag
evaluate_finish(ev, blocks) ==
    IF ev.raised # "none" THEN ev
    ELSE IF ev.total_students = 0
    THEN [ev EXCEPT !.raised = "AssertionError"]
    ELSE [ev EXCEPT !.success_percentage =
                        set_success_percentage(Cardinality(DOMAIN ev.successful_options),
                                               ev.total_students),
                    !.blocks = blocks, !.has_blocks = TRUE, !.evaluated = TRUE]

\* the loop of evaluate_blocks over the students from `key` on
RECURSIVE evaluate_from(_, _, _, _)
evaluate_from(ev, blocks, key, d) ==
    IF key > Len(d) \/ ev.raised # "none" THEN ev
    ELSE evaluate_from(evaluate_student(ev, blocks, key, d), blocks, key + 1, d)

\* the EvaluatedObject evaluate_blocks starts from
start_evaluation(d) == [NewEvaluation EXCEPT !.total_students = Len(d)]

\* EvaluationUtility.evaluate_blocks(blocks) (pathways off, the default)
evaluate_blocks(blocks, d) ==
    evaluate_finish(evaluate_from(start_evaluation(d), blocks, 1, d), blocks)

\* ------------------------------------------------------------------- state
VARIABLES
    data,              \* Generator.data: student -> list of chosen subjects
    options,           \* Generator.options: the declared option codes, in order
    number_of_blocks,  \* Generator.number_of_blocks
    class_size,        \* Generator.class_size
    protocol,          \* Generator.protocol, as what is_using answers
    ready,             \* Generator._ready
    node,              \* Generator.node: <<>> (None) or <<the root Node>>
    cache,             \* Generator.cache: <<>> (None) or <<the Cache>>
    stale,             \* node.cache when it is no longer Generator.cache, else <<>>
    creation_counter,  \* Node.creation_counter
    stack,             \* the Node.run calls in progress, the root first
    phase,             \* "idle", or "running" inside Generator.run
    signal,            \* the exception unwinding Node.run, "none" when none is
    completed,         \* the "Node complete!" log of the run: its leaves in order
    last,              \* how the last call of setup or run ended
    calls,             \* the calls of setup and run the caller still makes
    ev,                \* the EvaluatedObject evaluate_blocks is filling
    target,            \* the blocks evaluate_blocks was called with
    cursor,            \* the student the loop of evaluate_blocks takes up next
    validators,        \* Generator.validators
    best_evaluation,   \* Generator.best_evaluation: <<>> (None) or <<the object>>
    matching_best,     \* Generator.matching_best
    best,              \* the local `best` of Generator.evaluate
    pending,           \* the generated states the loop of evaluate has yet to take
    objects,           \* the Protocol and chain_protocols objects made so far
    composed,          \* the last composition: its operands and what it gave
    sweep,             \* run_with_threshold: where it is, its arguments, its tracker
    placing,           \* a State under auto_populate calls, with the last call
    memo,              \* a CachedStats: its _cache, with the last lookup
    pool,              \* the worker pool of multiprocess_states, <<>> when none is
    heap               \* the list objects of an evaluate_blocks followed call by call

vars == <<data, options, number_of_blocks, class_size, protocol, ready, node,
          cache, stale, creation_counter, stack, phase, signal, completed, last,
          calls, ev, target, cursor, validators, best_evaluation, matching_best,
          best, pending, objects, composed, sweep, failed_priority, placing,
          memo, pool, heap>>

inputs == <<data, options, number_of_blocks, class_size, protocol>>

selection == <<validators, best_evaluation, matching_best, best, pending>>

probes == <<placing, memo, pool, heap>>

eval_but_pool == <<ev, target, cursor, selection, objects, composed, sweep,
                   failed_priority, placing, memo, heap>>

extras == <<objects, composed, sweep, failed_priority, probes>>

eval == <<ev, target, cursor, selection, extras>>

search == <<ready, node, cache, stale, creation_counter, stack, phase, signal,
            completed, last, calls>>

\* ------------------------------------------------------------------ inputs
ChoiceLists == DistinctSeqs(Subject, MaxChoices)

\* a population of up to NumStudents students (a dict keyed 1..n)
DataSets == UNION {[1..n -> ChoiceLists] : n \in 0..NumStudents}

\* the declared options: every subject, or all but the last one, ascending or
\* descending
OptionLists ==
    LET all == SortedSeq(Subject)
        most == SortedSeq(Subject \ {NumSubjects})
        Rev(q) == [i \in DOMAIN q |-> q[Len(q) + 1 - i]]
    IN {all, Rev(all), most, Rev(most)}

\* ImmediateEvaluation thresholds, in hundredths
Thresholds == {5000, 10000}

\* what is_using answers for a protocol: ImmediateEvaluation (with its
\* threshold), LimitProtocol (with its maximum), OrderingProtocol, OrderSetProtocol
Protocol(immediate, threshold, limit, maximum, ordering, orderset) ==
    [immediate |-> immediate, threshold |-> threshold, limit |-> limit,
     maximum |-> maximum, ordering |-> ordering, orderset |-> orderset]

DefaultProtcol == Protocol(FALSE, 0, FALSE, 0, FALSE, FALSE)

\* the protocols a generator is given: the default, one flag alone, or
\* ImmediateEvaluation chained with LimitProtocol
Protocols ==
    {DefaultProtcol,
     Protocol(FALSE, 0, FALSE, 0, TRUE, FALSE),
     Protocol(FALSE, 0, FALSE, 0, FALSE, TRUE)}
    \cup {Protocol(TRUE, t, FALSE, 0, FALSE, FALSE) : t \in Thresholds}
    \cup {Protocol(FALSE, 0, TRUE, k, FALSE, FALSE) : k \in 1..MaxLimit}
    \cup {Protocol(TRUE, 10000, TRUE, k, FALSE, FALSE) : k \in 1..MaxLimit}

\* ------------------------------------------------------------------- caches

\* statistics.Cache(data, option_codes), with the two process caches None
NewCache(d, codes) ==
    [data |-> d, option_codes |-> codes, generated_states |-> {},
     PriorityPairs |-> <<>>, RemainingPairs |-> <<>>]

\* the cache of the root node and so of every node of its tree
NodeCache == IF stale # <<>> THEN stale[1] ELSE cache[1]

\* set.add(state) under State.__hash__ and State.__eq__: a state whose blocks
\* equal those of a stored one is not added
set_add(states, st) ==
    IF \E g \in states : g.blocks = st.blocks THEN states ELSE states \cup {st}

\* ------------------------------------------------------------ api.Generator

\* Generator.check_data: TRUE when it raises no ValidationError
check_data(d, codes, nblocks) ==
    \A k \in DOMAIN d :
        /\ Len(d[k]) <= nblocks
        /\ \A i \in DOMAIN d[k] : d[k][i] \in Range(codes)

\* the root Node that setup builds
RootNode(id, d, codes, nblocks, size) ==
    [id |-> id,
     state |-> NewState(nblocks,
                   calculate_classes(subject_popularity(d, codes), size, nblocks))]

\* no run_with_threshold is in progress
NoSweep == [at |-> "none", min_students |-> 0, max_students |-> 0, tracker |-> <<>>]

\* where a call of run or evaluate returns to: the caller of the generator
\* ("idle"), or run_with_threshold when that made the call
Caller == IF sweep.at = "none" THEN "idle" ELSE "threshold"

\* how a call of run() that raised nothing ended
Returned == {"run_complete", "threshold", "limit"}

\* Generator.__init__, the inputs apart: nothing is set up, no call was made
Fresh ==
    /\ ready = FALSE
    /\ node = <<>>
    /\ cache = <<>>
    /\ stale = <<>>
    /\ creation_counter = 0
    /\ stack = <<>>
    /\ phase = "idle"
    /\ signal = "none"
    /\ completed = <<>>
    /\ last = "new"
    /\ ev = NewEvaluation
    /\ target = <<>>
    /\ cursor = 0
    /\ best_evaluation = <<>>
    /\ matching_best = <<>>
    /\ best = NewEvaluation
    /\ pending = {}
    /\ objects = <<>>
    /\ composed = <<>>
    /\ sweep = NoSweep
    /\ failed_priority = NoPriority
    /\ placing = <<>>
    /\ memo = <<>>
    /\ pool = <<>>
    /\ heap = <<>>

\* a new generator whose caller goes on to make MaxCalls calls
Constructed == Fresh /\ calls = MaxCalls

Init ==
    /\ data \in DataSets
    /\ options \in OptionLists
    /\ number_of_blocks \in 1..MaxBlocks
    /\ class_size \in 1..MaxClassSize
    /\ protocol \in Protocols
    /\ validators = <<>>
    /\ Constructed

\* Generator.setup(raise_exceptions)
Setup(raise_exceptions) ==
    /\ phase = "idle"
    /\ calls > 0
    /\ calls' = calls - 1
    /\ LET codes == IF protocol.ordering THEN sorted(options) ELSE options
           fresh == NewCache(data, codes)
           valid == check_data(data, codes, number_of_blocks)
       IN /\ options' = codes
          /\ cache' = <<fresh>>
          /\ creation_counter' = creation_counter + 1
          /\ IF valid
             THEN /\ node' = <<RootNode(creation_counter, data, codes,
                                        number_of_blocks, class_size)>>
                  /\ stale' = <<>>
                  /\ ready' = TRUE
                  /\ last' = "setup_true"
             ELSE /\ node' = node
                  /\ stale' = IF node = <<>> THEN <<>> ELSE <<NodeCache>>
                  /\ ready' = ready
                  /\ last' = IF raise_exceptions THEN "ValidationError" ELSE "setup_false"
    /\ UNCHANGED <<data, number_of_blocks, class_size, protocol, stack, phase,
                   signal, completed, eval>>

\* Generator.run up to the call of self.node.run(): pre_run raises
\* ImproperlyConfigured unless the generator is ready
RunStart ==
    /\ phase = "idle"
    /\ calls > 0
    /\ calls' = calls - 1
    /\ IF ready
       THEN /\ phase' = "running"
            /\ stack' = <<[id |-> node[1].id, parent |-> -1, st |-> node[1].state,
                           status |-> "pending", subject |-> 0, options |-> <<>>]>>
            /\ completed' = <<>>
            /\ last' = "running"
       ELSE /\ last' = "ImproperlyConfigured"
            /\ UNCHANGED <<phase, stack, completed>>
    /\ UNCHANGED <<inputs, ready, node, cache, stale, creation_counter, signal, eval>>

\* ------------------------------------------------------------- tree.Node

Top == stack[Len(stack)]

SetTop(frame) == [stack EXCEPT ![Len(stack)] = frame]

\* the node's cache after a change: it is Generator.cache unless it went stale
PutNodeCache(c) ==
    /\ cache' = IF stale # <<>> THEN cache ELSE <<c>>
    /\ stale' = IF stale # <<>> THEN <<c>> ELSE stale

\* State.current_process, as its index in PROCESSES: continue_process moves it
\* along with process_index as long as a process is left
current_process(st) ==
    IF st.process_index >= NumProcesses THEN NumProcesses - 1 ELSE st.process_index

\* continue_process that leaves the index where it is
continue_process_staying(st) == st

\* continue_process that passes over a process
continue_process_skipping(st) == [st EXCEPT !.process_index = @ + 2]

\* Node.continue_process: the index after the process that just ran
continue_process(st) == [st EXCEPT !.process_index = @ + 1]

\* leaf_signal with the threshold compared strictly
leaf_signal_strict(id, result) ==
    IF protocol.immediate /\ result.raised # "none" THEN result.raised
    ELSE IF protocol.immediate /\ result.success_percentage > protocol.threshold
    THEN "threshold"
    ELSE IF protocol.limit /\ id + 1 > protocol.maximum THEN "limit"
    ELSE "none"

\* the exception a completed node raises after it stored its state: the
\* ImmediateEvaluation check first (evaluate_state may itself raise), then the
\* LimitProtocol check
leaf_signal(id, result) ==
    IF protocol.immediate /\ result.raised # "none" THEN result.raised
    ELSE IF protocol.immediate /\ result.success_percentage >= protocol.threshold
    THEN "threshold"
    ELSE IF protocol.limit /\ id + 1 > protocol.maximum THEN "limit"
    ELSE "none"

\* the ready_cache of the current process: PriorityPairs and RemainingPairs
\* fill their entry of cache.process_cache when it is None; `remaining` is the
\* order in which the set of RemainingPairs is iterated
ready_cache(c, st, remaining) ==
    [c EXCEPT
        !.PriorityPairs =
            IF current_process(st) = 0 /\ @ = <<>>
            THEN <<priority_pairs(st, c.option_codes, c.data)>> ELSE @,
        !.RemainingPairs =
            IF current_process(st) = 1 /\ @ = <<>> THEN <<remaining>> ELSE @]

\* self.load_next_process().execute() after ready_cache
execute(c, st) ==
    run_process(current_process(st), st,
                IF c.PriorityPairs = <<>> THEN <<>> ELSE c.PriorityPairs[1],
                IF c.RemainingPairs = <<>> THEN <<>> ELSE c.RemainingPairs[1],
                c.option_codes, c.data)

\* the else branch of Node.run without the state being stored as generated
CompleteUnstored(c, st, result) ==
    /\ stack' = SetTop([Top EXCEPT !.st = st, !.status = "leaf"])
    /\ PutNodeCache(c)
    /\ completed' = Append(completed,
           [id |-> Top.id, blocks |-> st.blocks, scored |-> protocol.immediate,
            success_percentage |-> result.success_percentage])
    /\ signal' = leaf_signal(Top.id, result)

\* the else branch of Node.run with the evaluation made: the state is stored
\* and logged, and the protocols may raise TerminateGeneration
CompleteScored(c, st, result) ==
    /\ stack' = SetTop([Top EXCEPT !.st = st, !.status = "leaf"])
    /\ PutNodeCache([c EXCEPT !.generated_states = set_add(@, st)])
    /\ completed' = Append(completed,
           [id |-> Top.id, blocks |-> st.blocks, scored |-> protocol.immediate,
            success_percentage |-> result.success_percentage])
    /\ signal' = leaf_signal(Top.id, result)

\* the else branch of Node.run: the node is complete
Complete(c, st) ==
    CompleteScored(c, st, IF protocol.immediate
                          THEN evaluate_blocks(st.blocks, c.data)
                          ELSE NewEvaluation)

\* Ran with the LimitProtocol check made after every stage, not only the last
Ran_checking(c, r) ==
    CASE r.kind = "branch" ->
            /\ stack' = SetTop([Top EXCEPT !.st = r.st, !.status = "branching",
                                           !.subject = r.subject,
                                           !.options = r.options])
            /\ PutNodeCache(c)
            /\ UNCHANGED <<signal, completed>>
      [] r.kind = "error" ->
            /\ stack' = SetTop([Top EXCEPT !.st = r.st])
            /\ PutNodeCache(c)
            /\ signal' = "SubjectError"
            /\ UNCHANGED completed
      [] r.kind = "ok" /\ r.st.process_index + 1 < NumProcesses ->
            /\ stack' = SetTop([Top EXCEPT !.st = continue_process(r.st)])
            /\ PutNodeCache(c)
            /\ signal' = IF protocol.limit /\ Top.id + 1 > protocol.maximum
                         THEN "limit" ELSE signal
            /\ UNCHANGED completed
      [] OTHER -> Complete(c, continue_process(r.st))

\* Node.run after the process ran with outcome r
Ran(c, r) ==
    CASE r.kind = "branch" ->
            /\ stack' = SetTop([Top EXCEPT !.st = r.st, !.status = "branching",
                                           !.subject = r.subject,
                                           !.options = r.options])
            /\ PutNodeCache(c)
            /\ UNCHANGED <<signal, completed>>
      [] r.kind = "error" ->
            /\ stack' = SetTop([Top EXCEPT !.st = r.st])
            /\ PutNodeCache(c)
            /\ signal' = "SubjectError"
            /\ UNCHANGED completed
      [] r.kind = "ok" /\ r.st.process_index + 1 < NumProcesses ->
            /\ stack' = SetTop([Top EXCEPT !.st = continue_process(r.st)])
            /\ PutNodeCache(c)
            /\ UNCHANGED <<signal, completed>>
      [] OTHER -> Complete(c, continue_process(r.st))

Readied(c) == Ran(c, execute(c, Top.st))

\* the orders in which the top node may find the set of RemainingPairs
\* iterated when it readies that cache: sorted under OrderSetProtocol, else any
RemainingOrders ==
    IF current_process(Top.st) = 1 /\ NodeCache.RemainingPairs = <<>>
    THEN IF protocol.orderset
         THEN {SortedSeq(remaining_set(Top.st, NodeCache.option_codes))}
         ELSE Perms(remaining_set(Top.st, NodeCache.option_codes))
    ELSE {<<>>}

\* Node.run, one process: the top node readies the cache of its current
\* process and executes it; then it goes on to the next process, or completes
\* as a leaf, or prepares to branch
Stage ==
    /\ phase = "running"
    /\ signal = "none"
    /\ Top.status = "pending"
    /\ \E remaining \in RemainingOrders :
          Readied(ready_cache(NodeCache, Top.st, remaining))
    /\ UNCHANGED <<inputs, ready, node, creation_counter, phase, last, calls, eval>>

\* Node.copy with a state that starts the processes over
copy_restarted(parent, id) ==
    [id |-> id, parent |-> parent.id,
     st |-> [parent.st EXCEPT !.process_index = STARTING_PROCESS],
     status |-> "pending", subject |-> 0, options |-> <<>>]

\* Node.copy: the child, with the next id and a copy of the parent's state
copy(parent, id) ==
    [id |-> id, parent |-> parent.id, st |-> parent.st, status |-> "pending",
     subject |-> 0, options |-> <<>>]

\* Forked with a child that holds the state of its parent, not a copy of it
Forked_shared(new_node, filled) ==
    IF filled.ok
    THEN Append(SetTop([Top EXCEPT !.options = Tail(@), !.st = filled.st]),
                [new_node EXCEPT !.st = filled.st])
    ELSE SetTop([Top EXCEPT !.options = Tail(@)])

\* Forked with a child that runs on the copy as it was made, the candidate
\* block not filled
Forked_unfilled(new_node, filled) ==
    IF filled.ok
    THEN Append(SetTop([Top EXCEPT !.options = Tail(@)]), new_node)
    ELSE SetTop([Top EXCEPT !.options = Tail(@)])

\* the stack after one pass of the loop of Node.branch: the option is taken
\* off, and the child runs if populate_block filled its block
Forked(new_node, filled) ==
    IF filled.ok
    THEN Append(SetTop([Top EXCEPT !.options = Tail(@)]),
                [new_node EXCEPT !.st = filled.st])
    ELSE SetTop([Top EXCEPT !.options = Tail(@)])

\* Node.branch, one pass of its loop: a child is made for the next option and
\* runs if the subject could be put into that block
Fork ==
    /\ phase = "running"
    /\ signal = "none"
    /\ Top.status = "branching"
    /\ Top.options # <<>>
    /\ LET new_node == copy(Top, creation_counter)
       IN stack' = Forked(new_node, populate_block(new_node.st, Top.subject,
                                                   Head(Top.options)))
    /\ creation_counter' = creation_counter + 1
    /\ UNCHANGED <<inputs, ready, node, cache, stale, phase, signal, completed,
                   last, calls, eval>>

\* a Node.run that is done: a leaf, or a node whose branches all ran
Finished(frame) ==
    \/ frame.status = "leaf"
    \/ frame.status = "branching" /\ frame.options = <<>>

\* Node.run of a child returns to the loop of its parent's branch
Return ==
    /\ phase = "running"
    /\ signal = "none"
    /\ Len(stack) > 1
    /\ Finished(Top)
    /\ stack' = SubSeq(stack, 1, Len(stack) - 1)
    /\ UNCHANGED <<inputs, ready, node, cache, stale, creation_counter, phase,
                   signal, completed, last, calls, eval>>

\* Generator.run without the except clause for TerminateGeneration
RunReturnUncaught ==
    /\ phase = "running"
    /\ signal # "none" \/ (Len(stack) = 1 /\ Finished(Top))
    /\ phase' = Caller
    /\ node' = <<[node[1] EXCEPT !.state = stack[1].st]>>
    /\ stack' = <<>>
    /\ signal' = "none"
    /\ IF signal = "none"
       THEN /\ ready' = FALSE
            /\ last' = "run_complete"
       ELSE /\ ready' = ready
            /\ last' = IF signal \in {"threshold", "limit"}
                       THEN "TerminateGeneration" ELSE signal
    /\ UNCHANGED <<inputs, cache, stale, creation_counter, completed, calls, eval>>

\* Generator.run after self.node.run(): a TerminateGeneration is caught, then
\* _ready is cleared and post_run runs; any other exception leaves run()
RunReturn ==
    /\ phase = "running"
    /\ signal # "none" \/ (Len(stack) = 1 /\ Finished(Top))
    /\ phase' = Caller
    /\ node' = <<[node[1] EXCEPT !.state = stack[1].st]>>
    /\ stack' = <<>>
    /\ signal' = "none"
    /\ IF signal \in {"none", "threshold", "limit"}
       THEN /\ ready' = FALSE
            /\ last' = IF signal = "none" THEN "run_complete" ELSE signal
       ELSE /\ ready' = ready
            /\ last' = signal
    /\ UNCHANGED <<inputs, cache, stale, creation_counter, completed, calls, eval>>

Next ==
    \/ \E raise_exceptions \in BOOLEAN : Setup(raise_exceptions)
    \/ RunStart
    \/ Stage
    \/ Fork
    \/ Return
    \/ RunReturn

Spec == Init /\ [][Next]_vars

\* populations whose search has leaves of different scores: one student with
\* a single choice and one who chooses every subject, for as many blocks as
\* there are subjects and classes of one
WidePopulations ==
    {<<<<subject>>, q>> : subject \in 1..WideSubjects, q \in Perms(1..WideSubjects)}

InitThreshold ==
    /\ data \in WidePopulations
    /\ options = SortedSeq(1..WideSubjects)
    /\ number_of_blocks = WideSubjects
    /\ class_size = 1
    /\ protocol \in {Protocol(TRUE, t, FALSE, 0, FALSE, FALSE) : t \in Thresholds}
    /\ validators = <<>>
    /\ Constructed

\* the generator on the wide populations, under ImmediateEvaluation
SpecThreshold == InitThreshold /\ [][Next]_vars

\* a generator under LimitProtocol whose caller makes MaxCycleCalls calls of
\* setup and run in one process, so that Node.creation_counter carries over
InitCycles ==
    /\ data \in DataSets
    /\ options = SortedSeq(Subject)
    /\ number_of_blocks \in 1..MaxBlocks
    /\ class_size \in 1..MaxClassSize
    /\ protocol \in {Protocol(FALSE, 0, TRUE, k, FALSE, FALSE) : k \in 1..MaxLimit}
    /\ validators = <<>>
    /\ Fresh
    /\ calls = MaxCycleCalls

\* setup/run cycles of one generator
SpecCycles == InitCycles /\ [][Next]_vars

\* up to NumStudents students over DeepSubjects subjects
DeepPopulations ==
    UNION {[1..n -> DistinctSeqs(1..DeepSubjects, DeepSubjects)] : n \in 0..NumStudents}

\* few subjects on DeepBlocks blocks, where a subject can have three classes
\* for MainProcess to place
InitDeep ==
    /\ data \in DeepPopulations
    /\ options = SortedSeq(1..DeepSubjects)
    /\ number_of_blocks = DeepBlocks
    /\ class_size \in 1..MaxClassSize
    /\ protocol \in {DefaultProtcol, Protocol(FALSE, 0, FALSE, 0, FALSE, TRUE)}
    /\ validators = <<>>
    /\ Constructed

\* the generator on DeepBlocks blocks
SpecDeep == InitDeep /\ [][Next]_vars

\* Node.run is about to run a process of the top node
StageReady == phase = "running" /\ signal = "none" /\ Top.status = "pending"

\* the generator whose run, once called, goes on until it returns: the search
\* is synchronous code that nothing suspends, so a branch, a return or a
\* process that is due is taken
SpecFair ==
    /\ Spec
    /\ WF_vars(Fork \/ Return \/ RunReturn)
    /\ ([]<>(~StageReady) \/ []<><<Stage>>_vars)

\* populations of at most one student, for a caller who changes the data
SmallPopulations == {d \in DataSets : Len(d) <= 1}

\* the caller assigns other data to Generator.data between two calls; the
\* cache and the root node of an earlier setup keep the data they were built on
Rebind ==
    /\ phase = "idle"
    /\ data' \in SmallPopulations \ {data}
    /\ UNCHANGED <<options, number_of_blocks, class_size, protocol, search, eval>>

InitApi ==
    /\ data \in SmallPopulations
    /\ options \in OptionLists
    /\ number_of_blocks \in 1..MaxBlocks
    /\ class_size \in 1..MaxClassSize
    /\ protocol = DefaultProtcol
    /\ validators = <<>>
    /\ Fresh
    /\ calls = MaxApiCalls

NextApi == Next \/ Rebind

\* the generator with a caller who may change its data between calls
SpecApi == InitApi /\ [][NextApi]_vars

\* ------------------------------------- EvaluationUtility.evaluate_blocks

\* populations evaluate_blocks is run on
EvalPopulations == UNION {[1..n -> ChoiceLists] : n \in 0..MaxEvalStudents}

\* the blocks it is given: any subjects in any of up to MaxEvalBlocks blocks
EvalBlocks ==
    UNION {[1..n -> {SortedSeq(S) : S \in SUBSET Subject}] : n \in 1..MaxEvalBlocks}

InitEval ==
    /\ data \in EvalPopulations
    /\ target \in EvalBlocks
    /\ options = SortedSeq(Subject)
    /\ number_of_blocks = MaxEvalBlocks
    /\ class_size = 1
    /\ protocol = DefaultProtcol
    /\ ready = FALSE
    /\ node = <<>>
    /\ cache = <<NewCache(data, options)>>
    /\ stale = <<>>
    /\ creation_counter = 0
    /\ stack = <<>>
    /\ phase = "idle"
    /\ signal = "none"
    /\ completed = <<>>
    /\ last = "new"
    /\ calls = 0
    /\ ev = NewEvaluation
    /\ cursor = 0
    /\ validators = <<>>
    /\ best_evaluation = <<>>
    /\ matching_best = <<>>
    /\ best = NewEvaluation
    /\ pending = {}
    /\ objects = <<>>
    /\ composed = <<>>
    /\ sweep = NoSweep
    /\ failed_priority = NoPriority
    /\ placing = <<>>
    /\ memo = <<>>
    /\ pool = <<>>
    /\ heap = <<>>

\* evaluate_blocks up to its loop: the EvaluatedObject with the student total
EvaluateStart ==
    /\ target # <<>>
    /\ cursor = 0
    /\ ev' = start_evaluation(cache[1].data)
    /\ cursor' = 1
    /\ UNCHANGED <<inputs, search, target, selection, extras>>

\* one pass of the loop of evaluate_blocks
EvaluateStudent ==
    /\ cursor \in 1..Len(cache[1].data)
    /\ ev.raised = "none"
    /\ ev' = evaluate_student(ev, target, cursor, cache[1].data)
    /\ cursor' = cursor + 1
    /\ UNCHANGED <<inputs, search, target, selection, extras>>

\* evaluate_blocks after its loop
EvaluateFinish ==
    /\ cursor = Len(cache[1].data) + 1
    /\ ev.raised = "none"
    /\ ~ev.evaluated
    /\ ev' = evaluate_finish(ev, target)
    /\ UNCHANGED <<inputs, search, target, cursor, selection, extras>>

NextEval == EvaluateStart \/ EvaluateStudent \/ EvaluateFinish

SpecEval == InitEval /\ [][NextEval]_vars

\* three students who choose {1, 2}, {1, 3} and {2, 3}, each in either order
ScenarioPopulations ==
    {<<a, b, c>> : a \in Perms({1, 2}), b \in Perms({1, 3}), c \in Perms({2, 3})}

InitScenario ==
    /\ data \in DataSets \cup ScenarioPopulations
    /\ options \in Perms(Subject)
    /\ number_of_blocks \in ScenarioBlocks..MaxBlocks
    /\ class_size \in 1..MaxClassSize
    /\ protocol \in Protocols
    /\ validators = <<>>
    /\ Constructed

\* the generator on the three students of the scenario among other
\* populations, from two blocks on
SpecScenario == InitScenario /\ [][Next]_vars

\* one student with up to three choices, for a utility with a priority level
PriorityPopulations == [1..PriorityStudents -> DistinctSeqs(Subject, NumSubjects)]

\* the blocks it is given: any subjects in any of up to MaxBlocks blocks
PriorityBlocks ==
    UNION {[1..n -> {SortedSeq(S) : S \in SUBSET Subject}] : n \in 1..MaxBlocks}

InitPriority ==
    /\ data \in PriorityPopulations
    /\ target \in PriorityBlocks
    /\ options = SortedSeq(Subject)
    /\ number_of_blocks = MaxBlocks
    /\ class_size = 1
    /\ protocol = DefaultProtcol
    /\ validators = <<>>
    /\ cache = <<NewCache(data, options)>>
    /\ ready = FALSE /\ node = <<>> /\ stale = <<>> /\ creation_counter = 0
    /\ stack = <<>> /\ phase = "idle" /\ signal = "none" /\ completed = <<>>
    /\ last = "new" /\ calls = 0
    /\ ev = NewEvaluation /\ cursor = 0
    /\ best_evaluation = <<>> /\ matching_best = <<>> /\ best = NewEvaluation
    /\ pending = {}
    /\ objects = <<>> /\ composed = <<>> /\ sweep = NoSweep
    /\ failed_priority \in {NoPriority} \cup 1..NumSubjects
    /\ placing = <<>>
    /\ memo = <<>>
    /\ pool = <<>>
    /\ heap = <<>>

\* evaluate_blocks of a utility built with or without failed_priority
SpecPriority == InitPriority /\ [][NextEval]_vars

\* ------------------------------------------------- Generator.evaluate

\* validators.MaxSubjectsValidator(max_value)
MaxSubjectsValidator(max_value) == [kind |-> "MaxSubjects", max_value |-> max_value]

\* validators.SymmetricalAlignmentValidator()
SymmetricalAlignmentValidator == [kind |-> "SymmetricalAlignment", max_value |-> 0]

\* Validator.check(evaluation): TRUE when no ValidationError is raised.
\* SymmetricalAlignmentValidator compares the set of block lengths with the
\* number of blocks, a set with an int, which are never equal: it always raises
check(validator, evaluation) ==
    IF validator.kind = "MaxSubjects"
    THEN \A i \in DOMAIN evaluation.blocks :
            Len(evaluation.blocks[i]) <= validator.max_value
    ELSE FALSE

\* Generator.check_evaluation: every validator checks the evaluation; a
\* ValidationError is caught and answered with False
check_evaluation(checks, evaluation) ==
    \A i \in DOMAIN checks : check(checks[i], evaluation)

\* the validator lists a generator is built with: none (the default) or one
\* validator
ValidatorLists ==
    {<<>>, <<SymmetricalAlignmentValidator>>}
    \cup {<<MaxSubjectsValidator(k)>> : k \in 1..MaxSubjectsBound}

\* Generator.update_classes(subject=klass) after a setup: a count above
\* number_of_blocks raises ImproperlyConfigured before anything is updated
UpdateClasses ==
    /\ phase = "idle"
    /\ calls > 0
    /\ node # <<>>
    /\ calls' = calls - 1
    /\ \E subject \in DOMAIN node[1].state.classes, klass \in 0..(number_of_blocks + 1) :
          IF klass > number_of_blocks
          THEN /\ last' = "ImproperlyConfigured"
               /\ node' = node
          ELSE /\ last' = "updated"
               /\ node' = <<[node[1] EXCEPT !.state.classes[subject] = klass]>>
    /\ UNCHANGED <<inputs, ready, cache, stale, creation_counter, stack, phase,
                   signal, completed, eval>>

\* Generator.evaluate up to its loop: the utility is built on self.node.cache
\* (an AttributeError without a node), `best` is a new EvaluatedObject, and
\* the generated states are iterated (in the order of a set of hashed states:
\* any order; fewer than the 50 states that would be handed to a process pool)
Evaluate ==
    /\ phase = "idle"
    /\ calls > 0
    /\ calls' = calls - 1
    /\ IF node = <<>>
       THEN /\ last' = "AttributeError"
            /\ UNCHANGED <<phase, best, pending>>
       ELSE /\ phase' = "evaluating"
            /\ best' = NewEvaluation
            /\ pending' = NodeCache.generated_states
            /\ last' = "evaluating"
    /\ UNCHANGED <<inputs, ready, node, cache, stale, creation_counter, stack,
                   signal, completed, ev, target, cursor, validators,
                   best_evaluation, matching_best, extras>>

\* the loop body without the `continue` after a failed check_evaluation
ConsideredUnchecked(st, result) ==
    IF result.raised # "none"
    THEN /\ phase' = Caller
         /\ last' = result.raised
         /\ pending' = {}
         /\ UNCHANGED <<best, matching_best>>
    ELSE /\ UNCHANGED <<phase, last>>
         /\ pending' = pending \ {st}
         /\ IF result.success_percentage > best.success_percentage
            THEN best' = result /\ matching_best' = matching_best
            ELSE IF result.success_percentage = best.success_percentage
            THEN best' = best /\ matching_best' = Append(matching_best, result)
            ELSE UNCHANGED <<best, matching_best>>

\* the body of the loop of evaluate for the state `st` and its evaluation
Considered(st, result) ==
    IF result.raised # "none"
    THEN /\ phase' = Caller
         /\ last' = result.raised
         /\ pending' = {}
         /\ UNCHANGED <<best, matching_best>>
    ELSE /\ UNCHANGED <<phase, last>>
         /\ pending' = pending \ {st}
         /\ IF ~check_evaluation(validators, result)
            THEN UNCHANGED <<best, matching_best>>
            ELSE IF result.success_percentage > best.success_percentage
            THEN best' = result /\ matching_best' = matching_best
            ELSE IF result.success_percentage = best.success_percentage
            THEN best' = best /\ matching_best' = Append(matching_best, result)
            ELSE UNCHANGED <<best, matching_best>>

\* one pass of the loop of evaluate: the next state is evaluated by
\* evaluate_blocks (whose exceptions leave evaluate), checked by the
\* validators and compared with `best`
EvaluateState ==
    /\ phase = "evaluating"
    /\ \E st \in pending :
          Considered(st, evaluate_blocks(st.blocks, NodeCache.data))
    /\ UNCHANGED <<inputs, ready, node, cache, stale, creation_counter, stack,
                   signal, completed, calls, ev, target, cursor, validators,
                   best_evaluation, extras>>

\* evaluate after its loop: best_evaluation is set and returned
EvaluateReturn ==
    /\ phase = "evaluating"
    /\ pending = {}
    /\ phase' = Caller
    /\ best_evaluation' = <<best>>
    /\ last' = "evaluated"
    /\ UNCHANGED <<inputs, ready, node, cache, stale, creation_counter, stack,
                   signal, completed, calls, ev, target, cursor, validators,
                   matching_best, best, pending, extras>>

\* four students over four subjects whose search, for three blocks and classes
\* of two, has leaves of different scores
TiedPopulation == <<<<1, 2>>, <<1>>, <<3, 1, 4>>, <<3, 4, 2>>>>

InitEvaluate ==
    /\ \/ /\ data \in SmallPopulations
          /\ options = SortedSeq(Subject)
          /\ class_size = 1
       \/ /\ data = TiedPopulation
          /\ options = SortedSeq(1..WideSubjects)
          /\ class_size = 2
    /\ number_of_blocks = MaxBlocks
    /\ protocol = Protocol(FALSE, 0, FALSE, 0, FALSE, TRUE)
    /\ validators \in ValidatorLists
    /\ Fresh
    /\ calls = MaxEvaluateCalls

NextEvaluate == Next \/ UpdateClasses \/ Evaluate \/ EvaluateState \/ EvaluateReturn

\* the generator with a caller who sets up, may update class counts, runs and
\* evaluates
SpecEvaluate == InitEvaluate /\ [][NextEvaluate]_vars

\* ------------------------------------------ Generator.run_with_threshold

\* the ClassOption objects of an OptionBlocks, as (block, subject) pairs
ClassOptions(blocks) ==
    UNION {{<<b, blocks[b][i]>> : i \in DOMAIN blocks[b]} : b \in DOMAIN blocks}

\* one pass of the inner loop of calculate_students, for the class of
\* `entry` = (code, block): the class takes one more student, or is set back
\* to the sentinel once it is more than one above it
count_option(students, entry, sentinel) ==
    LET klass == <<entry[2], entry[1]>>
    IN IF sentinel # 0 /\ students[klass] - 1 >= sentinel
       THEN [students EXCEPT ![klass] = sentinel]
       ELSE [students EXCEPT ![klass] = @ + 1]

\* the inner loop of calculate_students over the options of one student
RECURSIVE count_student(_, _, _)
count_student(students, opts, sentinel) ==
    IF opts = <<>> THEN students
    ELSE count_student(count_option(students, Head(opts), sentinel), Tail(opts), sentinel)

\* the outer loop of calculate_students, over the successful students from
\* `key` on
RECURSIVE count_from(_, _, _, _)
count_from(students, evaluation, key, sentinel) ==
    IF key > evaluation.total_students THEN students
    ELSE count_from(IF key \in DOMAIN evaluation.successful_options
                    THEN count_student(students, evaluation.successful_options[key],
                                       sentinel)
                    ELSE students,
                    evaluation, key + 1, sentinel)

\* EvaluatedObject.calculate_students(sentinel): the students of every class
\* of the evaluation's blocks
calculate_students(evaluation, sentinel) ==
    count_from([klass \in ClassOptions(evaluation.blocks) |-> 0], evaluation, 1, sentinel)

\* OptionBlocks.get_classes(students) with the default operation lt, minimum 0
\* and maximum 40
get_classes_lt(counts, students) ==
    {klass \in DOMAIN counts :
        counts[klass] < students /\ counts[klass] > 0 /\ counts[klass] < 40}

\* OptionBlocks.get_classes(students, operation=operator.ge, maximum=maximum)
get_classes_ge(counts, students, maximum) ==
    {klass \in DOMAIN counts :
        counts[klass] >= students /\ counts[klass] > 0 /\ counts[klass] < maximum}

\* adjust without the two loops: the tracker stays as it is
adjust_kept(tracker, smallest, largest) == tracker

\* the tracker after the two loops at the end of an iteration: one class less
\* for each class in smallest, one more for each in largest
adjust(tracker, smallest, largest) ==
    [subject \in DOMAIN tracker |->
        tracker[subject]
            - Cardinality({klass \in smallest : klass[2] = subject})
            + Cardinality({klass \in largest : klass[2] = subject})]

\* Generator.run_with_threshold(min_students, max_students) up to its loop:
\* the tracker is a copy of the class counts of the node (an AttributeError
\* without a node)
RunWithThreshold ==
    /\ phase = "idle"
    /\ calls > 0
    /\ calls' = calls - 1
    /\ IF node = <<>>
       THEN /\ last' = "AttributeError"
            /\ UNCHANGED <<phase, sweep>>
       ELSE /\ phase' = "threshold"
            /\ last' = "threshold_started"
            /\ \E min_students \in 0..MaxSweepStudents, max_students \in 1..MaxSweepStudents :
                  sweep' = [at |-> "run", min_students |-> min_students,
                            max_students |-> max_students,
                            tracker |-> node[1].state.classes]
    /\ UNCHANGED <<inputs, ready, node, cache, stale, creation_counter, stack,
                   signal, completed, ev, target, cursor, selection, objects,
                   composed, failed_priority, probes>>

\* the head of the loop: the node gets a copy of the tracker as its class
\* counts and self.run() is called, which raises ImproperlyConfigured out of
\* run_with_threshold unless the generator is ready
SweepRun ==
    /\ phase = "threshold"
    /\ sweep.at = "run"
    /\ node' = <<[node[1] EXCEPT !.state.classes = sweep.tracker]>>
    /\ IF ready
       THEN /\ phase' = "running"
            /\ stack' = <<[id |-> node[1].id, parent |-> -1,
                           st |-> [node[1].state EXCEPT !.classes = sweep.tracker],
                           status |-> "pending", subject |-> 0, options |-> <<>>]>>
            /\ completed' = <<>>
            /\ last' = "running"
            /\ sweep' = [sweep EXCEPT !.at = "evaluate"]
       ELSE /\ phase' = "idle"
            /\ last' = "ImproperlyConfigured"
            /\ sweep' = NoSweep
            /\ UNCHANGED <<stack, completed>>
    /\ UNCHANGED <<inputs, ready, cache, stale, creation_counter, signal, calls,
                   ev, target, cursor, selection, objects, composed, failed_priority, probes>>

\* an exception of self.run() or self.evaluate() leaves run_with_threshold
SweepRaised ==
    /\ phase = "threshold"
    /\ \/ sweep.at = "evaluate" /\ last \notin Returned
       \/ sweep.at = "adjust" /\ last # "evaluated"
    /\ phase' = "idle"
    /\ sweep' = NoSweep
    /\ UNCHANGED <<inputs, ready, node, cache, stale, creation_counter, stack,
                   signal, completed, last, calls, ev, target, cursor, selection,
                   objects, composed, failed_priority, probes>>

\* self.evaluate() of the iteration, up to its loop
SweepEvaluate ==
    /\ phase = "threshold"
    /\ sweep.at = "evaluate"
    /\ last \in Returned
    /\ phase' = "evaluating"
    /\ best' = NewEvaluation
    /\ pending' = NodeCache.generated_states
    /\ last' = "evaluating"
    /\ sweep' = [sweep EXCEPT !.at = "adjust"]
    /\ UNCHANGED <<inputs, ready, node, cache, stale, creation_counter, stack,
                   signal, completed, calls, ev, target, cursor, validators,
                   best_evaluation, matching_best, objects, composed,
                   failed_priority, probes>>

\* run_with_threshold returns
SweepBreak ==
    /\ phase' = "idle"
    /\ last' = "threshold_done"
    /\ sweep' = NoSweep
    /\ UNCHANGED <<options, ready, node, cache, stale, creation_counter>>

\* self.setup() at the end of an iteration (a ValidationError leaves
\* run_with_threshold), then the two loops over smallest and largest
SweepSetup(smallest, largest) ==
    LET codes == IF protocol.ordering THEN sorted(options) ELSE options
    IN /\ options' = codes
       /\ cache' = <<NewCache(data, codes)>>
       /\ creation_counter' = creation_counter + 1
       /\ IF check_data(data, codes, number_of_blocks)
          THEN /\ node' = <<RootNode(creation_counter, data, codes,
                                     number_of_blocks, class_size)>>
               /\ stale' = <<>>
               /\ ready' = TRUE
               /\ phase' = "threshold"
               /\ last' = "threshold_adjusted"
               /\ sweep' = [sweep EXCEPT !.at = "run",
                                         !.tracker = adjust(@, smallest, largest)]
          ELSE /\ node' = node
               /\ stale' = IF node = <<>> THEN <<>> ELSE <<NodeCache>>
               /\ ready' = ready
               /\ phase' = "idle"
               /\ last' = "ValidationError"
               /\ sweep' = NoSweep

\* the iteration after self.evaluate() returned `evaluation`, whose classes
\* have the students `counts`
Adjusted(evaluation, counts) ==
    IF evaluation.success_percentage = 0 THEN SweepBreak
    ELSE IF /\ get_classes_lt(counts, sweep.min_students) = {}
            /\ get_classes_ge(counts, sweep.max_students, sweep.max_students) = {}
    THEN SweepBreak
    ELSE SweepSetup(get_classes_lt(counts, sweep.min_students),
                    get_classes_ge(counts, sweep.max_students, sweep.max_students))

\* the rest of an iteration: the loop ends on a success rate of 0 or when no
\* class is in smallest or largest; else the generator is set up again and
\* the tracker adjusted
SweepAdjust ==
    /\ phase = "threshold"
    /\ sweep.at = "adjust"
    /\ last = "evaluated"
    /\ Adjusted(best_evaluation[1],
                IF best_evaluation[1].success_percentage = 0 THEN <<>>
                ELSE calculate_students(best_evaluation[1], sweep.max_students))
    /\ UNCHANGED <<data, number_of_blocks, class_size, protocol, stack, signal,
                   completed, calls, ev, target, cursor, selection, objects,
                   composed, failed_priority, probes>>

InitSweep ==
    /\ data \in SmallPopulations
    /\ options = SortedSeq(Subject)
    /\ number_of_blocks \in 1..MaxBlocks
    /\ class_size \in 1..MaxClassSize
    /\ protocol = Protocol(FALSE, 0, FALSE, 0, FALSE, TRUE)
    /\ validators = <<>>
    /\ Constructed

NextSweep ==
    \/ Next
    \/ RunWithThreshold
    \/ SweepRun
    \/ SweepRaised
    \/ SweepEvaluate
    \/ EvaluateState
    \/ EvaluateReturn
    \/ SweepAdjust

\* the generator with a caller who sets up and calls run_with_threshold
SpecSweep == InitSweep /\ [][NextSweep]_vars

\* run_with_threshold called by a caller who waits for it: the search, the
\* evaluation and the loop are one thread of synchronous code, so each of their
\* steps is taken when it is due
SpecSweepFair ==
    /\ SpecSweep
    /\ WF_vars(Fork \/ Return \/ RunReturn)
    /\ ([]<>(~StageReady) \/ []<><<Stage>>_vars)
    /\ WF_vars(SweepRun \/ SweepRaised \/ SweepEvaluate \/ EvaluateReturn)
    /\ ([]<>(~(phase = "evaluating" /\ pending # {})) \/ []<><<EvaluateState>>_vars)
    /\ ([]<>(~(phase = "threshold" /\ sweep.at = "adjust" /\ last = "evaluated"))
           \/ []<><<SweepAdjust>>_vars)

\* ------------------------------------------------------- protocols.py

\* the Protocol subclasses
Flags ==
    {"DefaultProtcol", "ImmediateEvaluation", "OrderingProtocol", "LimitProtocol",
     "OrderSetProtocol"}

\* an instance of the Protocol subclass `class`
Flag(class) == [chain |-> FALSE, class |-> class, protocols |-> <<>>]

\* chain_protocols(*protocols) over the objects `ids`
chain_protocols(ids) == [chain |-> TRUE, class |-> "chain_protocols", protocols |-> ids]

\* Protocol.is_using and chain_protocols.is_using of the object `id` for the
\* class `class`: <<>> (None) or the first matching instance
is_using(objs, id, class) ==
    IF objs[id].chain
    THEN LET found == {i \in DOMAIN objs[id].protocols :
                          objs[objs[id].protocols[i]].class = class}
         IN IF found = {} THEN <<>>
            ELSE <<objs[id].protocols[CHOOSE i \in found : \A j \in found : i <= j]>>
    ELSE IF objs[id].class = class THEN <<id>> ELSE <<>>

\* what a composition gives: the exception it raised or the object it
\* returned, and the objects after it
Composition(raised, result, objs) == [raised |-> raised, result |-> result, objects |-> objs]

\* chain_protocols.__and__(self, other): the chain is extended in place and
\* returned
chain_and(objs, self, other) ==
    Composition("none", self,
        [objs EXCEPT ![self].protocols =
            IF objs[other].chain THEN @ \o objs[other].protocols
            ELSE Append(@, other)])

\* Protocol.__and__(self, other)
protocol_and(objs, self, other) ==
    IF objs[other].chain THEN chain_and(objs, other, self)
    ELSE Composition("none", Len(objs) + 1,
                     Append(objs, chain_protocols(<<self, other>>)))

\* self & other
and(objs, self, other) ==
    IF objs[self].chain THEN chain_and(objs, self, other)
    ELSE protocol_and(objs, self, other)

\* self | other: Protocol.__or__ is __and__; chain_protocols defines no
\* __or__ and Protocol no __ror__, so a chain on the left is a TypeError
or(objs, self, other) ==
    IF objs[self].chain THEN Composition("TypeError", 0, objs)
    ELSE protocol_and(objs, self, other)

\* a flag is constructed
Construct ==
    /\ Len(objects) < MaxObjects
    /\ \E class \in Flags : objects' = Append(objects, Flag(class))
    /\ UNCHANGED <<inputs, search, ev, target, cursor, selection, composed, sweep,
                   failed_priority, probes>>

\* the composition `operator` of two objects as its outcome `out`
Composed(operator, self, other, out) ==
    /\ Len(out.objects) <= MaxObjects
    /\ \A id \in DOMAIN out.objects : Len(out.objects[id].protocols) <= MaxChain
    /\ objects' = out.objects
    /\ composed' = <<[operator |-> operator, self |-> self, other |-> other,
                      raised |-> out.raised, result |-> out.result]>>

\* two objects are composed with & or with |
Compose ==
    /\ \E self \in DOMAIN objects, other \in DOMAIN objects :
          \/ Composed("&", self, other, and(objects, self, other))
          \/ Composed("|", self, other, or(objects, self, other))
    /\ UNCHANGED <<inputs, search, ev, target, cursor, selection, sweep,
                   failed_priority, probes>>

InitProtocols ==
    /\ data = <<>>
    /\ options = SortedSeq(Subject)
    /\ number_of_blocks = 1
    /\ class_size = 1
    /\ protocol = DefaultProtcol
    /\ validators = <<>>
    /\ Fresh
    /\ calls = 0

NextProtocols == Construct \/ Compose

\* protocol flags are constructed and composed
SpecProtocols == InitProtocols /\ [][NextProtocols]_vars

\* ------------------------------------------- State.auto_populate, call by call

\* the State of a root node as setup builds it, with allow_branching as its
\* owner leaves or sets it
PlacingState(allow_branching) ==
    [RootNode(0, data, options, number_of_blocks, class_size).state
        EXCEPT !.allow_branching = allow_branching]

\* the state, and the last operation on it: the subject, the state it found
\* and what it ended with
Placed(op, subject, before, result) ==
    <<[op |-> op, subject |-> subject, before |-> before, state |-> result.st,
       result |-> result]>>

\* state.auto_populate(subject=subject, iterations=1)
AutoPopulate(subject) ==
    /\ placing # <<>>
    /\ placing[1].result.kind = "ok"
    /\ placing' = Placed("auto_populate", subject, placing[1].state,
                         auto_populate(placing[1].state, subject, 1, data))
    /\ UNCHANGED <<inputs, search, ev, target, cursor, selection, objects, composed,
                   sweep, failed_priority, memo, pool, heap>>

\* Node.branch for one of the options of the BranchRequired: the copy of the
\* state is filled at that block
BranchPopulate ==
    /\ placing # <<>>
    /\ placing[1].result.kind = "branch"
    /\ \E choice \in Range(placing[1].result.options) :
          placing' = Placed("branch", placing[1].subject, placing[1].state,
                        Done(populate_block(placing[1].state, placing[1].subject,
                                            choice).st))
    /\ UNCHANGED <<inputs, search, ev, target, cursor, selection, objects, composed,
                   sweep, failed_priority, memo, pool, heap>>

InitPopulate ==
    /\ data \in DataSets
    /\ options = SortedSeq(Subject)
    /\ number_of_blocks \in 1..MaxBlocks
    /\ class_size \in 1..MaxClassSize
    /\ check_data(data, options, number_of_blocks)
    /\ protocol = DefaultProtcol
    /\ validators = <<>>
    /\ ready = FALSE /\ node = <<>> /\ cache = <<>> /\ stale = <<>>
    /\ creation_counter = 0 /\ stack = <<>> /\ phase = "idle" /\ signal = "none"
    /\ completed = <<>> /\ last = "new" /\ calls = 0
    /\ ev = NewEvaluation /\ target = <<>> /\ cursor = 0
    /\ best_evaluation = <<>> /\ matching_best = <<>> /\ best = NewEvaluation
    /\ pending = {}
    /\ objects = <<>> /\ composed = <<>> /\ sweep = NoSweep
    /\ failed_priority = NoPriority
    /\ memo = <<>>
    /\ pool = <<>>
    /\ heap = <<>>
    /\ \E allow_branching \in BOOLEAN :
          placing = Placed("new", 0, PlacingState(allow_branching),
                           Done(PlacingState(allow_branching)))

NextPopulate ==
    \/ \E subject \in Range(options) : AutoPopulate(subject)
    \/ BranchPopulate

\* auto_populate is called on a state, one class of one subject at a time
SpecPopulate == InitPopulate /\ [][NextPopulate]_vars


\* ---------------------------------------- PriorityPairs on four subjects

\* populations over WideSubjects subjects
QuartilePopulations ==
    UNION {[1..n -> DistinctSeqs(1..WideSubjects, MaxChoices)] : n \in 0..NumStudents}

InitQuartile ==
    /\ data \in QuartilePopulations
    /\ options = SortedSeq(1..WideSubjects)
    /\ number_of_blocks \in QuartileBlocks..MaxBlocks
    /\ class_size \in MaxClassSize..(NumStudents + 1)
    /\ protocol = Protocol(FALSE, 0, FALSE, 0, FALSE, TRUE)
    /\ validators = <<>>
    /\ Constructed

\* the generator on populations of which every subject may have a single class
SpecQuartile == InitQuartile /\ [][Next]_vars


\* ------------------------------------------------- statistics.CachedStats

\* CachedStats(cache): the data of the cache and an empty _cache, a dict from
\* sorted pairs to counts
NewCachedStats(d) == [data |-> d, cache |-> <<>>]

\* self._cache.update({clash: count})
cache_update(c, clash, count) ==
    [key \in DOMAIN c \cup {clash} |-> IF key = clash THEN count ELSE c[key]]

\* one pass of the loop of CachedStats.subject_block_clashes: the count of the
\* clash is taken from _cache, or computed by clash_count and stored
cached_clash(stats, clash) ==
    IF clash \in DOMAIN stats.cache
    THEN [count |-> stats.cache[clash], stats |-> stats]
    ELSE [count |-> clash_count(clash, stats.data),
          stats |-> [stats EXCEPT
                        !.cache = cache_update(@, clash, clash_count(clash, stats.data))]]

RECURSIVE cached_block_from(_, _, _, _)

\* the loop of CachedStats.subject_block_clashes after one pass
cached_block_next(hit, subject_code, block, clashes) ==
    cached_block_from(hit.stats, subject_code, Tail(block), clashes + hit.count)

\* the loop of CachedStats.subject_block_clashes over what is left of the block
cached_block_from(stats, subject_code, block, clashes) ==
    IF block = <<>>
    THEN [clashes |-> clashes, stats |-> stats]
    ELSE cached_block_next(cached_clash(stats, SortedPair(Head(block), subject_code)),
                           subject_code, block, clashes)

\* CachedStats.subject_block_clashes(subject_code, block): what it returns and
\* the CachedStats as it leaves it
cached_subject_block_clashes(stats, subject_code, block) ==
    cached_block_from(stats, subject_code, block, 0)

\* the blocks a State may hold: no subject twice
MemoBlocks == DistinctSeqs(Subject, NumSubjects)

\* the memo after a lookup, with the lookup and its answer
Looked(subject_code, block, out) ==
    <<[stats |-> out.stats, subject_code |-> subject_code, block |-> block,
       clashes |-> out.clashes]>>

\* stats.subject_block_clashes(subject_code, block)
Lookup ==
    /\ memo # <<>>
    /\ \E subject_code \in Subject, block \in MemoBlocks :
          memo' = Looked(subject_code, block,
                      cached_subject_block_clashes(memo[1].stats, subject_code, block))
    /\ UNCHANGED <<inputs, search, ev, target, cursor, selection, objects, composed,
                   sweep, failed_priority, placing, pool, heap>>

InitMemo ==
    /\ data \in DataSets
    /\ options = SortedSeq(Subject)
    /\ number_of_blocks = 1
    /\ class_size = 1
    /\ protocol = DefaultProtcol
    /\ validators = <<>>
    /\ ready = FALSE /\ node = <<>> /\ cache = <<>> /\ stale = <<>>
    /\ creation_counter = 0 /\ stack = <<>> /\ phase = "idle" /\ signal = "none"
    /\ completed = <<>> /\ last = "new" /\ calls = 0
    /\ ev = NewEvaluation /\ target = <<>> /\ cursor = 0
    /\ best_evaluation = <<>> /\ matching_best = <<>> /\ best = NewEvaluation
    /\ pending = {}
    /\ objects = <<>> /\ composed = <<>> /\ sweep = NoSweep
    /\ failed_priority = NoPriority
    /\ placing = <<>>
    /\ pool = <<>>
    /\ heap = <<>>
    /\ memo = Looked(1, <<>>, [clashes |-> 0, stats |-> NewCachedStats(data)])

NextMemo == Lookup

\* a CachedStats answers lookups in any order
SpecMemo == InitMemo /\ [][NextMemo]_vars


\* ------------------- EvaluationUtility.evaluate_blocks, its lists as objects

\* None, as try_against_blocks puts it in place of a block it used
None == <<0>>

\* copy that hands back the list it was given
copy_list_shared(mem, id) == [mem |-> mem, id |-> id]

\* copy.deepcopy(blocks) and copy.copy(options) at the head of
\* try_against_blocks: a new list object that holds what the list `id` holds
copy_list(mem, id) == [mem |-> Append(mem, mem[id]), id |-> Len(mem) + 1]

\* the locals of try_against_blocks(blocks, options, order, raise_exceptions,
\* prioritise) when its loop starts
NewTry(blocks, choices, floor, required_iters, order, raise_exceptions, prioritise) ==
    [blocks |-> blocks, options |-> choices, floor |-> floor,
     required_iters |-> required_iters, current_iters |-> 0, handled |-> <<>>,
     order |-> order, raise_exceptions |-> raise_exceptions,
     prioritise |-> prioritise, raised |-> "none"]

\* the objects of an EvaluationUtility and a caller who holds two lists of
\* blocks: those lists and one list per student of cache.data
NewHeap(first, second, d, scorings) ==
    [mem |-> <<first, second>> \o d,
     before |-> <<first, second>> \o d,
     leaves |-> <<1, 2>>,
     choices |-> [key \in DOMAIN d |-> 2 + key],
     leaf |-> 0, key |-> 0, ev |-> NewEvaluation, failure |-> FALSE,
     try |-> <<>>, done |-> <<>>, calls |-> scorings]

\* evaluate_blocks(blocks) up to its loop, called with one of the two lists
ScoreStart ==
    /\ heap.leaf = 0
    /\ heap.calls > 0
    /\ \E leaf \in DOMAIN heap.leaves :
          heap' = [heap EXCEPT !.leaf = leaf, !.key = 1, !.calls = @ - 1,
                               !.ev = start_evaluation(heap.choices)]
    /\ UNCHANGED <<inputs, search, ev, target, cursor, selection, objects, composed,
                   sweep, failed_priority, placing, memo, pool>>

\* try_against_blocks is entered, from the try of evaluate_blocks or, in its
\* except branch, from prioritise_failed: the blocks and the options are copied
TryEnter ==
    /\ heap.leaf # 0
    /\ heap.try = <<>>
    /\ heap.key \in DOMAIN heap.choices
    /\ heap.ev.raised = "none"
    /\ LET blocks == copy_list(heap.mem, heap.leaves[heap.leaf])
           choices == copy_list(blocks.mem, heap.choices[heap.key])
       IN heap' = [heap EXCEPT
              !.mem = choices.mem,
              !.try = <<NewTry(blocks.id, choices.id, Len(heap.mem),
                               Len(choices.mem[choices.id]),
                               ~heap.failure, ~heap.failure,
                               IF heap.failure THEN FailedPriorityOption
                               ELSE NoPriority)>>]
    /\ UNCHANGED <<inputs, search, ev, target, cursor, selection, objects, composed,
                   sweep, failed_priority, placing, memo, pool>>

\* the call after a pass of the loop that took up `subject`, found in `block`
\* (0: in none): an exception, or the block is set to None and the subject is
\* removed from the options
Passed(try, mem, subject, block) ==
    IF block = 0 /\ try.prioritise # NoPriority /\ try.prioritise > Len(try.handled)
    THEN [try |-> [try EXCEPT !.raised = "PriorityFailed"], mem |-> mem]
    ELSE IF block = 0 /\ try.raise_exceptions
    THEN [try |-> [try EXCEPT !.raised = "EvaluationFailed"], mem |-> mem]
    ELSE [try |-> [try EXCEPT
                      !.handled = IF block = 0 THEN @
                                  ELSE Append(@, <<subject, block>>),
                      !.current_iters = @ + 1],
          mem |-> [mem EXCEPT
                      ![try.blocks] = IF block = 0 THEN @
                                      ELSE [@ EXCEPT ![block] = None],
                      ![try.options] = RemoveFirst(@, subject)]]

\* one pass of the loop of try_against_blocks
TryPass ==
    /\ heap.try # <<>>
    /\ heap.try[1].raised = "none"
    /\ heap.try[1].current_iters < heap.try[1].required_iters
    /\ LET try == heap.try[1]
           blocks == heap.mem[try.blocks]
           subject == pick_subject(DictKeys(heap.mem[try.options]), blocks, {},
                                   try.order)
           passed == Passed(try, heap.mem, subject, first_block(blocks, {}, subject))
       IN heap' = [heap EXCEPT !.try = <<passed.try>>, !.mem = passed.mem]
    /\ UNCHANGED <<inputs, search, ev, target, cursor, selection, objects, composed,
                   sweep, failed_priority, placing, memo, pool>>

\* evaluate_blocks after a call of try_against_blocks ended with `r`: the
\* student is filed as successful, or prioritise_failed is called next, or
\* the student is filed as failed with the options as the list holds them
Filed(h, r) ==
    IF h.failure
    THEN [h EXCEPT !.ev = file_failed(@, h.key, h.mem[h.choices[h.key]], r),
                   !.failure = FALSE, !.key = @ + 1]
    ELSE IF r.raised = "none"
    THEN [h EXCEPT !.ev.successful_options = @ @@ (h.key :> r.handled),
                   !.key = @ + 1]
    ELSE IF r.raised = "EvaluationFailed"
    THEN [h EXCEPT !.failure = TRUE]
    ELSE [h EXCEPT !.ev.raised = r.raised]

\* try_against_blocks returns or raises: its locals are gone
TryLeave ==
    /\ heap.try # <<>>
    /\ \/ heap.try[1].raised # "none"
       \/ heap.try[1].current_iters = heap.try[1].required_iters
    /\ LET try == heap.try[1]
       IN heap' = Filed([heap EXCEPT !.try = <<>>,
                                     !.mem = SubSeq(@, 1, try.floor)],
                        try_checked(Tried(try.raised, try.handled),
                                    try.required_iters, try.raise_exceptions))
    /\ UNCHANGED <<inputs, search, ev, target, cursor, selection, objects, composed,
                   sweep, failed_priority, placing, memo, pool>>

\* evaluate_blocks after its loop, or left by an exception
ScoreFinish ==
    /\ heap.leaf # 0
    /\ heap.try = <<>>
    /\ heap.key \notin DOMAIN heap.choices \/ heap.ev.raised # "none"
    /\ heap' = [heap EXCEPT
           !.done = Append(@, [leaf |-> heap.leaf,
                               ev |-> evaluate_finish(heap.ev,
                                          heap.mem[heap.leaves[heap.leaf]])]),
           !.leaf = 0]
    /\ UNCHANGED <<inputs, search, ev, target, cursor, selection, objects, composed,
                   sweep, failed_priority, placing, memo, pool>>

\* the populations scored: up to ScoreStudents students
ScorePopulations == UNION {[1..n -> ChoiceLists] : n \in 0..ScoreStudents}

\* the blocks in the opposite order
Turned(blocks) == [b \in DOMAIN blocks |-> blocks[Len(blocks) + 1 - b]]

InitScore ==
    /\ data \in ScorePopulations
    /\ target \in EvalBlocks
    /\ options = SortedSeq(Subject)
    /\ number_of_blocks = MaxEvalBlocks
    /\ class_size = 1
    /\ protocol = DefaultProtcol
    /\ validators = <<>>
    /\ cache = <<NewCache(data, options)>>
    /\ ready = FALSE /\ node = <<>> /\ stale = <<>> /\ creation_counter = 0
    /\ stack = <<>> /\ phase = "idle" /\ signal = "none" /\ completed = <<>>
    /\ last = "new" /\ calls = 0
    /\ ev = NewEvaluation /\ cursor = 0
    /\ best_evaluation = <<>> /\ matching_best = <<>> /\ best = NewEvaluation
    /\ pending = {}
    /\ objects = <<>> /\ composed = <<>> /\ sweep = NoSweep
    /\ failed_priority \in {NoPriority, 1}
    /\ placing = <<>>
    /\ memo = <<>>
    /\ pool = <<>>
    /\ heap = NewHeap(target, Turned(target), data, MaxScorings)

NextScore == ScoreStart \/ TryEnter \/ TryPass \/ TryLeave \/ ScoreFinish

\* an EvaluationUtility whose evaluate_blocks is called on two lists of blocks
SpecScore == InitScore /\ [][NextScore]_vars

\* ---------------------------- EvaluationUtility.multiprocess_states
\* Generator.evaluate with the process pool: multiprocessing.Pool.map splits
\* the states into chunks, every worker process takes the next chunk when it
\* is free, evaluates its states on its own copy of the utility and the cache,
\* and map returns the results in the order of the states.

Workers == 1..NumWorkers

\* the values of "evaluation-threshold" in settings.conf: a small one, or none
\* (the fallback)
PoolThresholds == {1, MULTIPROCESS_THRESHOLD}

\* the condition of multiprocess_states for the process pool
use_pool(count, threshold, within_deamon, enabled) ==
    count > threshold /\ ~within_deamon /\ enabled

\* the chunk size Pool.map computes for `count` tasks: divmod(count, 4 *
\* workers), one more when there is a remainder
chunksize(count) ==
    (count \div (4 * NumWorkers)) + (IF count % (4 * NumWorkers) = 0 THEN 0 ELSE 1)

\* the pool as map starts: the tasks (the states in the order of iteration,
\* each pickled with the utility and its cache), no chunk taken, no result
NewPool(tasks, d) ==
    [tasks |-> tasks, snapshot |-> [i \in DOMAIN tasks |-> d], queue |-> 1,
     hold |-> [w \in Workers |-> <<>>], results |-> [i \in DOMAIN tasks |-> <<>>],
     returned |-> <<>>, next |-> 1, interrupted |-> FALSE]

\* EvaluationUtility.evaluate_state(state) in a worker, on the data of the
\* cache copy that came with the task
evaluate_state(d, st) == evaluate_blocks(st.blocks, d)

\* a result filed where the worker happened to finish, not at its task's place
Stored_unordered(results, index, result) ==
    LET free == {i \in DOMAIN results : results[i] = <<>>}
    IN [results EXCEPT ![CHOOSE i \in free : \A j \in free : i <= j] = <<result>>]

\* the result of task `index` as map files it: at the place of its task
Stored(results, index, result) == [results EXCEPT ![index] = <<result>>]

\* Generator.evaluate up to the loop, with multiprocess_states: a pool when
\* there are more states than the threshold, no pool was made on this cache
\* and multiprocessing is enabled; else the states are evaluated one by one.
\* within_deamon is set on the cache when the pool is made.
EvaluatePool ==
    /\ phase = "idle"
    /\ calls > 0
    /\ calls' = calls - 1
    /\ IF node = <<>>
       THEN /\ last' = "AttributeError"
            /\ UNCHANGED <<phase, best, pending, pool>>
       ELSE /\ best' = NewEvaluation
            /\ last' = "evaluating"
            /\ \E threshold \in PoolThresholds, enabled \in BOOLEAN :
                  IF use_pool(Cardinality(NodeCache.generated_states), threshold,
                              pool # <<>>, enabled)
                  THEN /\ phase' = "mapping"
                       /\ pending' = {}
                       /\ \E tasks \in Perms(NodeCache.generated_states) :
                             pool' = <<NewPool(tasks, NodeCache.data)>>
                  ELSE /\ phase' = "evaluating"
                       /\ pending' = NodeCache.generated_states
                       /\ pool' = pool
    /\ UNCHANGED <<inputs, ready, node, cache, stale, creation_counter, stack,
                   signal, completed, ev, target, cursor, validators,
                   best_evaluation, matching_best, objects, composed, sweep,
                   failed_priority, placing, memo, heap>>

\* a free worker takes the next chunk of tasks from the queue
WorkerTake ==
    /\ phase = "mapping"
    /\ pool[1].queue <= Len(pool[1].tasks)
    /\ \E w \in Workers :
          /\ pool[1].hold[w] = <<>>
          /\ LET first == pool[1].queue
                 size == chunksize(Len(pool[1].tasks))
                 stop == IF first + size - 1 > Len(pool[1].tasks)
                         THEN Len(pool[1].tasks) ELSE first + size - 1
             IN pool' = <<[pool[1] EXCEPT
                              !.hold[w] = [k \in 1..(stop - first + 1) |-> first + k - 1],
                              !.queue = stop + 1]>>
    /\ UNCHANGED <<inputs, search, eval_but_pool>>

\* a worker evaluates the next state of its chunk and its result is filed
WorkerFinish ==
    /\ phase = "mapping"
    /\ \E w \in Workers :
          /\ pool[1].hold[w] # <<>>
          /\ LET index == Head(pool[1].hold[w])
             IN pool' = <<[pool[1] EXCEPT
                              !.hold[w] = Tail(@),
                              !.results = Stored(@, index,
                                  evaluate_state(pool[1].snapshot[index],
                                                 pool[1].tasks[index]))]>>
    /\ UNCHANGED <<inputs, search, eval_but_pool>>

\* map returns when every task has its result: the list of the results, or
\* the exception a worker raised, which leaves evaluate
MapReturn ==
    /\ phase = "mapping"
    /\ \A i \in DOMAIN pool[1].results : pool[1].results[i] # <<>>
    /\ LET results == [i \in DOMAIN pool[1].results |-> pool[1].results[i][1]]
           raising == {i \in DOMAIN results : results[i].raised # "none"}
       IN IF raising # {}
          THEN /\ phase' = Caller
               /\ last' \in {results[i].raised : i \in raising}
               /\ pool' = <<[pool[1] EXCEPT !.returned = <<>>]>>
          ELSE /\ phase' = "reducing"
               /\ last' = last
               /\ pool' = <<[pool[1] EXCEPT !.returned = <<results>>]>>
    /\ UNCHANGED <<inputs, ready, node, cache, stale, creation_counter, stack,
                   signal, completed, calls, eval_but_pool>>

\* a KeyboardInterrupt while map waits: the pool is terminated and the empty
\* list is returned
MapInterrupt ==
    /\ phase = "mapping"
    /\ phase' = "reducing"
    /\ pool' = <<[pool[1] EXCEPT !.returned = <<<<>>>>, !.interrupted = TRUE,
                                 !.hold = [w \in Workers |-> <<>>]]>>
    /\ UNCHANGED <<inputs, ready, node, cache, stale, creation_counter, stack,
                   signal, completed, last, calls, eval_but_pool>>

\* one pass of the loop of evaluate over the list map returned
EvaluateResult ==
    /\ phase = "reducing"
    /\ pool[1].next <= Len(pool[1].returned[1])
    /\ Considered(pool[1].tasks[pool[1].next], pool[1].returned[1][pool[1].next])
    /\ pool' = <<[pool[1] EXCEPT !.next = @ + 1]>>
    /\ UNCHANGED <<inputs, ready, node, cache, stale, creation_counter, stack,
                   signal, completed, calls, ev, target, cursor, validators,
                   best_evaluation, objects, composed, sweep, failed_priority,
                   placing, memo, heap>>

\* evaluate after its loop over the list: best_evaluation is set and returned
PoolReturn ==
    /\ phase = "reducing"
    /\ pool[1].next > Len(pool[1].returned[1])
    /\ phase' = Caller
    /\ best_evaluation' = <<best>>
    /\ last' = "evaluated"
    /\ UNCHANGED <<inputs, ready, node, cache, stale, creation_counter, stack,
                   signal, completed, calls, ev, target, cursor, validators,
                   matching_best, best, pending, extras>>

\* three students over four subjects whose search, for three blocks and
\* classes of two, ends in four leaves of two different scores
MixedPopulation == <<<<1, 4, 3>>, <<2, 4, 1>>, <<2, 3, 1>>>>

\* a generator without validators: a small population on up to PoolBlocks
\* blocks, or the mixed one
InitPool ==
    /\ \/ /\ data \in DataSets
          /\ options = SortedSeq(Subject)
          /\ number_of_blocks \in 1..PoolBlocks
          /\ class_size \in 1..MaxClassSize
          /\ protocol \in {DefaultProtcol, Protocol(FALSE, 0, FALSE, 0, FALSE, TRUE)}
       \/ /\ data = MixedPopulation
          /\ options = SortedSeq(1..WideSubjects)
          /\ number_of_blocks = MaxBlocks
          /\ class_size = 2
          /\ protocol = Protocol(FALSE, 0, FALSE, 0, FALSE, TRUE)
    /\ validators = <<>>
    /\ Fresh
    /\ calls = MaxApiCalls

NextPool ==
    \/ Next
    \/ EvaluatePool
    \/ WorkerTake
    \/ WorkerFinish
    \/ MapReturn
    \/ MapInterrupt
    \/ EvaluateResult
    \/ EvaluateState
    \/ EvaluateReturn
    \/ PoolReturn

\* the generator with a caller who sets up, runs and evaluates, with a pool of
\* NumWorkers worker processes
SpecPool == InitPool /\ [][NextPool]_vars

\* -------------------------------------------------------------- properties

\* the leaves stored in the generated set of a cache the generator or its
\* root node holds
Generated ==
    (IF cache = <<>> THEN {} ELSE cache[1].generated_states)
        \cup (IF stale = <<>> THEN {} ELSE stale[1].generated_states)

\* every State a search holds: the root node's, those of the Node.run calls in
\* progress (forked children among them), and the stored leaves
SearchStates ==
    {stack[i].st : i \in DOMAIN stack}
        \cup (IF node = <<>> THEN {} ELSE {node[1].state})
        \cup Generated

\* the class counts the run starts from
InitialClasses ==
    calculate_classes(subject_popularity(data, options), class_size, number_of_blocks)

\* the blocks of a state that hold the subject
Holding(st, subject) == {b \in DOMAIN st.blocks : Contains(st.blocks[b], subject)}

\* C1: conservation.  In every state of a search (root, forked children,
\* leaves) and for every subject, the remaining class count plus the number of
\* blocks holding the subject is the subject's initial class count.
C1_Conservation ==
    \A st \in SearchStates : \A subject \in DOMAIN st.classes :
        st.classes[subject] + Cardinality(Holding(st, subject)) = InitialClasses[subject]

\* C1 witness: a forked child in progress that has placed one subject in two
\* blocks and still has a class of another subject to place
C1_Witness ==
    /\ Len(stack) > 1
    /\ \E subject \in DOMAIN Top.st.classes : Cardinality(Holding(Top.st, subject)) >= 2
    /\ \E subject \in DOMAIN Top.st.classes : Top.st.classes[subject] >= 1

\* C2: no block of a state of a search holds the same subject twice.
C2_NoDuplicateInBlock ==
    \A st \in SearchStates : \A b \in DOMAIN st.blocks : NoDup(st.blocks[b])

\* C2 witness: a stored leaf in which a subject with a class left shares a
\* block with another subject, so that a further placement of it meets a
\* block that holds it already
C2_Witness ==
    \E st \in Generated : \E b \in DOMAIN st.blocks : \E i \in DOMAIN st.blocks[b] :
        /\ Len(st.blocks[b]) >= 2
        /\ Cardinality(Holding(st, st.blocks[b][i])) >= 2

\* what raw_insert does to the class counts of a state when it places the
\* subject: one less for the subject, the others as they were
DecrementsOne(st, after, subject) ==
    \A o \in DOMAIN st.classes :
        after.classes[o] = IF o = subject THEN st.classes[o] - 1 ELSE st.classes[o]

\* C3: no class count of a state of a search is negative, and a placement in
\* such a state, when it succeeds, takes exactly one off the subject's count.
C3_DecrementNeverNegative ==
    \A st \in SearchStates :
        /\ \A subject \in DOMAIN st.classes : st.classes[subject] >= 0
        /\ \A subject \in DOMAIN st.classes : \A b \in DOMAIN st.blocks :
              \/ raw_insert(st, subject, b).raised # "none"
              \/ DecrementsOne(st, raw_insert(st, subject, b).st, subject)

\* C3 witness: a stored leaf in which one subject has used up all of several
\* classes and another is in every block
C3_Witness ==
    \E st \in Generated :
        /\ \E subject \in DOMAIN st.classes :
              /\ st.classes[subject] = 0
              /\ Cardinality(Holding(st, subject)) >= 2
              /\ Cardinality(Holding(st, subject)) < Len(st.blocks)
        /\ \E subject \in DOMAIN st.classes :
              Cardinality(Holding(st, subject)) = Len(st.blocks)

\* C4: a search run under LimitProtocol(maximum=K) creates at most K nodes,
\* its root included: the ids handed out since the root's never number more
\* than K.
C4_NodeLimit ==
    (phase = "running" /\ protocol.limit) =>
        creation_counter - stack[1].id <= protocol.maximum

\* the last entry of the log of completed leaves
LastCompleted(log) == log[Len(log)]

\* a leaf was completed in this step, under ImmediateEvaluation, with an
\* evaluation that reached the threshold
ReachedThreshold ==
    /\ protocol.immediate
    /\ Len(completed') = Len(completed) + 1
    /\ LastCompleted(completed').success_percentage >= protocol.threshold

\* C5: under ImmediateEvaluation(threshold=T) the search stops at the first
\* completed leaf that scores at least T.  The leaf that reaches T raises the
\* termination, every leaf completed before it scored less, and the step after
\* the termination ends the run: no node ran, no fork was taken, no node was
\* made and no leaf was logged or stored in between.
C5_StopsAtFirstLeaf ==
    [][/\ ReachedThreshold => signal' = "threshold"
       /\ signal' = "threshold" =>
             /\ ReachedThreshold
             /\ \A i \in DOMAIN completed :
                   completed[i].success_percentage < protocol.threshold
       /\ signal = "threshold" =>
             /\ phase' = "idle" /\ stack' = <<>> /\ last' = "threshold"
             /\ UNCHANGED <<cache, stale, creation_counter, completed>>]_vars

\* C5 witness: the termination is unwinding from a leaf that was not the first
\* one completed, below a node that still has a branch it never takes
C5_Witness ==
    /\ signal = "threshold"
    /\ Len(completed) >= 2
    /\ \E i \in DOMAIN stack : stack[i].status = "branching" /\ stack[i].options # <<>>

\* two states hold the same subjects in every block
SameSubjects(a, b) ==
    /\ DOMAIN a.blocks = DOMAIN b.blocks
    /\ \A i \in DOMAIN a.blocks : Range(a.blocks[i]) = Range(b.blocks[i])

\* C6: leaves that hold the same subjects in every block, in whatever order
\* within the blocks, are one leaf of the generated set.
C6_Deduplication ==
    \A a \in Generated : \A b \in Generated : SameSubjects(a, b) => a = b

\* the least integer not below a / b
Ceiling(a, b) == (a + b - 1) \div b

Min(a, b) == IF a <= b THEN a ELSE b

\* C9: after a successful setup every subject's class count is
\* ceil(popularity / class_size), capped at number_of_blocks.
C9_InitialClassCount ==
    last = "setup_true" =>
        \A o \in DOMAIN node[1].state.classes :
            node[1].state.classes[o] =
                Min(Ceiling(subject_popularity(data, options)[o], class_size),
                    number_of_blocks)

\* the students filed as successful, and as failed
Successful == DOMAIN ev.successful_options

Failed == DOMAIN ev.failed_options

Abs(x) == IF x < 0 THEN -x ELSE x

\* C7: the success percentage evaluate_blocks produces for a non-empty
\* population lies in [0, 100] and is 100 x successful / total rounded to two
\* decimals: in hundredths, the integer nearest to 10000 x successful / total.
C7_SuccessPercentage ==
    ev.evaluated =>
        /\ ev.total_students = Len(data)
        /\ ev.total_students > 0
        /\ ev.success_percentage \in 0..10000
        /\ 2 * Abs(ev.success_percentage * ev.total_students
                       - 10000 * Cardinality(Successful)) <= ev.total_students

\* C7 witness: an evaluation whose percentage had to be rounded up
C7_Witness ==
    /\ ev.evaluated
    /\ ev.success_percentage * ev.total_students > 10000 * Cardinality(Successful)

\* C8: evaluate_blocks files every student it has taken up under exactly one of
\* successful and failed, a failed match never ends it, and once it has
\* returned the two maps are disjoint and cover the population.
C8_ClassifiesEveryone ==
    cursor >= 1 =>
        /\ Successful \cap Failed = {}
        /\ Successful \cup Failed = 1..(cursor - 1)
        /\ ev.raised # "none" => Len(data) = 0
        /\ ev.evaluated => Successful \cup Failed = DOMAIN data

\* C8 witness: a finished evaluation with a student who failed before one who
\* succeeded
C8_Witness ==
    /\ ev.evaluated
    /\ \E k \in Failed : \E j \in Successful : k < j

\* C10: a setup that fails for a caller who opted out of raising returns False
\* and leaves the generator not ready.
C10_FailedSetupNotReady == last = "setup_false" => ~ready

\* a step that is a call of run(): it performs a search, or stops with
\* ImproperlyConfigured
RunCalled == calls' = calls - 1 /\ last' \in {"running", "ImproperlyConfigured"}

\* C11: run() performs a search exactly when the call before it was a setup
\* that succeeded; after no setup, a failed setup or an earlier run it stops
\* with the configuration error.
C11_RunOnlyAfterSetup ==
    [][RunCalled => (last' = "running" <=> last = "setup_true")]_vars

\* the process of the top node raised BranchRequired in this step
BranchRaised ==
    /\ phase = "running"
    /\ Len(stack') = Len(stack)
    /\ Top.status = "pending"
    /\ Top'.status = "branching"

\* Generator.run is left in this step with a termination unwinding
TerminationLeaves ==
    phase = "running" /\ phase' = "idle" /\ signal \in {"threshold", "limit"}

\* C12: neither signal leaves Generator.run.  The node whose process raised
\* BranchRequired takes it up itself, with branches to fork and nothing
\* unwinding; a termination is caught where run() ends, which then returns as
\* after a full search, the generated leaves kept; and no call ever ends with
\* one of the two signals.
C12_SignalsStayInside ==
    [][/\ BranchRaised =>
             signal' = "none" /\ phase' = "running" /\ Top'.options # <<>>
       /\ TerminationLeaves =>
             last' = signal /\ ~ready' /\ Generated' = Generated
       /\ last' \notin {"BranchRequired", "TerminateGeneration"}]_vars

\* C12 witness: a run that forked and was then ended by a termination has
\* returned with a leaf generated
C12_Witness ==
    /\ phase = "idle"
    /\ last \in {"threshold", "limit"}
    /\ creation_counter >= 3
    /\ Generated # {}

\* the evaluations of the generated states of the node's cache that every
\* validator lets pass
Passing ==
    {result \in {evaluate_blocks(st.blocks, NodeCache.data) :
                    st \in NodeCache.generated_states} :
        result.raised = "none" /\ check_evaluation(validators, result)}

\* evaluate() has just returned
Evaluated == phase = "idle" /\ last = "evaluated"

\* C13: when evaluate() has returned and at least one completed leaf passes
\* every validator, the object it returned is the evaluation of one of the
\* passing leaves and no passing leaf has a higher success percentage.
C13_BestIsMaximum ==
    (Evaluated /\ Passing # {}) =>
        /\ best_evaluation[1] \in Passing
        /\ \A result \in Passing :
              result.success_percentage <= best_evaluation[1].success_percentage

\* C14: after evaluate() returned, matching_best holds no evaluation whose
\* success percentage is lower than that of the returned best.
C14_MatchingBest ==
    Evaluated =>
        \A i \in DOMAIN matching_best :
            matching_best[i].success_percentage
                >= best_evaluation[1].success_percentage

\* the generated state `st` evaluates without an exception and a validator
\* raises ValidationError on its evaluation
Rejected(st) ==
    LET result == evaluate_blocks(st.blocks, NodeCache.data)
    IN result.raised = "none" /\ ~check_evaluation(validators, result)

\* an evaluation that was given blocks passes every validator
Accepted(evaluation) ==
    evaluation.has_blocks => check_evaluation(validators, evaluation)

\* C15: a leaf that a validator rejects changes neither the best result nor
\* the matching-best list, evaluate() goes on with the remaining leaves
\* without raising, and nothing rejected is ever held as best or as matching
\* best.
C15_RejectedExcluded ==
    /\ [](/\ Accepted(best)
          /\ \A i \in DOMAIN best_evaluation : Accepted(best_evaluation[i])
          /\ \A i \in DOMAIN matching_best : Accepted(matching_best[i]))
    /\ [][\A st \in pending \ pending' :
             (phase = "evaluating" /\ Rejected(st)) =>
                 /\ best' = best
                 /\ matching_best' = matching_best
                 /\ phase' = "evaluating" /\ last' = last
                 /\ pending' = pending \ {st}]_vars

\* evaluate() returned a leaf's evaluation from a search of which a validator
\* rejected another leaf
C15_Witness ==
    /\ Evaluated
    /\ best_evaluation[1].has_blocks
    /\ \E st \in NodeCache.generated_states : Rejected(st)

\* the last composition took place in this step
Composing == composed' # <<>> /\ (composed' # composed \/ objects' # objects)

\* C16: a composition with & or | of flags and chains raises nothing, and
\* is_using on what it returns gives an instance of a class exactly when one
\* of the operands had a flag of that class, and then a flag of that class.
C16_ComposedFlags ==
    [][Composing =>
          /\ composed'[1].raised = "none"
          /\ \A class \in Flags :
                LET answer == is_using(objects', composed'[1].result, class)
                IN /\ answer # <<>> <=>
                          \/ is_using(objects, composed'[1].self, class) # <<>>
                          \/ is_using(objects, composed'[1].other, class) # <<>>
                   /\ answer # <<>> => objects'[answer[1]] = Flag(class)]_vars

\* the top node runs the Negligible process in this step
NegligibleRuns ==
    /\ phase = "running" /\ signal = "none" /\ Top.status = "pending"
    /\ current_process(Top.st) = NumProcesses - 1
    /\ stack' # stack

\* C17: when a node runs the Negligible process, every subject that then has
\* at least as many classes as there are blocks is in every block of the leaf
\* the node completes as, which is the state stored as generated.
C17_NegligibleEverywhere ==
    [][NegligibleRuns =>
          \A subject \in DOMAIN Top.st.classes :
              Top.st.classes[subject] >= Len(Top.st.blocks) =>
                  /\ Top'.status = "leaf"
                  /\ \A b \in DOMAIN Top'.st.blocks : Contains(Top'.st.blocks[b], subject)
                  /\ \E g \in Generated' : g.blocks = Top'.st.blocks]_vars

\* a leaf of a search over several blocks with a subject the Negligible
\* process put into every block
C17_Witness ==
    /\ phase = "running" /\ Top.status = "leaf"
    /\ number_of_blocks >= 2
    /\ \E subject \in DOMAIN Top.st.classes :
          /\ InitialClasses[subject] >= number_of_blocks
          /\ \A b \in DOMAIN Top.st.blocks : Contains(Top.st.blocks[b], subject)

\* the generator was built on the three students of the scenario
Scenario ==
    /\ data \in ScenarioPopulations
    /\ number_of_blocks = ScenarioBlocks
    /\ class_size = 1

\* C18: on the three students choosing {A,B}, {A,C}, {B,C}, with 2 blocks and
\* class size 1, no call ends with an exception other than the
\* ImproperlyConfigured of a run() without setup, and once run() has returned
\* at least one completed leaf is generated.
C18_ScenarioCompletes ==
    Scenario =>
        /\ last \in {"new", "setup_true", "running", "ImproperlyConfigured"} \cup Returned
        /\ last = "ImproperlyConfigured" => node = <<>>
        /\ (phase = "idle" /\ last \in Returned) => Generated # {}

\* run() has returned on the scenario after a search that completed a leaf
C18_Witness ==
    /\ Scenario
    /\ phase = "idle" /\ last = "run_complete"
    /\ Len(completed) >= 1
    /\ Generated # {}

\* the first of the blocks outside `taken` that holds the subject, 0 if none
FirstHolding(blocks, subject, taken) ==
    LET holding == {b \in DOMAIN blocks : b \notin taken /\ Contains(blocks[b], subject)}
    IN IF holding = {} THEN 0 ELSE CHOOSE b \in holding : \A c \in holding : b <= c

\* the student `key` has three choices of which the first two, taken in the
\* declared order, each find a block of their own, and the utility's priority
\* level is 2
WindowMatches(key) ==
    LET choices == cache[1].data[key]
    IN /\ failed_priority = FAILED_OPTION_PRIORITY
       /\ Len(choices) = 3
       /\ FirstHolding(target, choices[1], {}) # 0
       /\ FirstHolding(target, choices[2], {FirstHolding(target, choices[1], {})}) # 0

\* C19: a student with choices [X,Y,Z] whose full match failed and whose
\* first two choices match in declared order under priority level 2 is filed
\* in the failed map with the matches of X and Y and their blocks, not with a
\* PriorityFailed, and is not among the successful.
C19_PriorityWindow ==
    \A key \in DOMAIN ev.failed_options :
        WindowMatches(key) =>
            LET choices == cache[1].data[key]
                first == FirstHolding(target, choices[1], {})
                second == FirstHolding(target, choices[2], {first})
                kept == ev.failed_options[key].priorties
            IN /\ kept.raised = "none"
               /\ Len(kept.handled) >= 2
               /\ kept.handled[1] = <<choices[1], first>>
               /\ kept.handled[2] = <<choices[2], second>>
               /\ key \notin DOMAIN ev.successful_options

\* a student is filed as failed with the first two of three choices matched
\* and the third not
C19_Witness ==
    \E key \in DOMAIN ev.failed_options :
        /\ WindowMatches(key)
        /\ Len(ev.failed_options[key].priorties.handled) = 2
        /\ ev.evaluated

\* run_with_threshold ends an iteration whose best evaluation scored above 0
Adjusting ==
    /\ phase = "threshold" /\ sweep.at = "adjust" /\ last = "evaluated"
    /\ sweep' # sweep
    /\ best_evaluation[1].success_percentage # 0

\* the classes of the subject among `counts` that satisfy Wanted
Matching(counts, subject, Wanted(_)) ==
    Cardinality({klass \in DOMAIN counts : klass[2] = subject /\ Wanted(counts[klass])})

\* C20: at the end of an iteration of run_with_threshold, if some class has
\* fewer students than min_students or at least max_students, the loop goes
\* on and every subject's class count for the next iteration is the one of
\* this iteration, less one for each of its classes below min_students, plus
\* one for each of its classes at or above max_students.
C20_ClassCountsAdjusted ==
    [][Adjusting =>
          LET counts == calculate_students(best_evaluation[1], sweep.max_students)
              Below(students) == students < sweep.min_students
              Above(students) == students >= sweep.max_students
          IN (\E klass \in DOMAIN counts : Below(counts[klass]) \/ Above(counts[klass]))
                 => /\ sweep'.at = "run"
                    /\ \A subject \in DOMAIN sweep.tracker :
                          sweep'.tracker[subject] =
                              sweep.tracker[subject]
                                  - Matching(counts, subject, Below)
                                  + Matching(counts, subject, Above)]_vars

\* the clash load of a block for a subject: over the subjects of the block,
\* the students who chose both that subject and this one
Load(subject, block) ==
    SumSeq([i \in DOMAIN block |->
        Cardinality({k \in DOMAIN data :
            Contains(data[k], block[i]) /\ Contains(data[k], subject)})])

\* the blocks of a state that do not hold the subject
Free(st, subject) == {b \in DOMAIN st.blocks : ~Contains(st.blocks[b], subject)}

\* the last call of auto_populate returned after it placed the subject
PlacedQuietly ==
    /\ placing # <<>>
    /\ placing[1].op = "auto_populate"
    /\ placing[1].result.kind = "ok"
    /\ placing[1].state # placing[1].before

\* the call put the subject into block b of the state it found
InsertedInto(b) ==
    placing[1].state.blocks =
        [placing[1].before.blocks EXCEPT ![b] = Append(@, placing[1].subject)]

\* C21: when auto_populate places a subject without signalling a branch, the
\* block it inserts into has the least clash load among the blocks that do
\* not hold the subject, and the lowest index among those with that load.
C21_LeastLoadedLowestIndex ==
    PlacedQuietly =>
        LET subject == placing[1].subject
            before == placing[1].before
        IN \E b \in Free(before, subject) :
              /\ InsertedInto(b)
              /\ \A c \in Free(before, subject) :
                    \/ Load(subject, before.blocks[c]) > Load(subject, before.blocks[b])
                    \/ /\ Load(subject, before.blocks[c]) = Load(subject, before.blocks[b])
                       /\ c >= b

\* a placement into a block that ties with a later block, past a block of
\* higher load
C21_Witness ==
    /\ PlacedQuietly
    /\ LET subject == placing[1].subject
           before == placing[1].before
       IN \E a, b, c \in Free(before, subject) :
             /\ a < b /\ b < c
             /\ InsertedInto(b)
             /\ Load(subject, before.blocks[a]) > Load(subject, before.blocks[b])
             /\ Load(subject, before.blocks[c]) = Load(subject, before.blocks[b])

\* the last operation was an iteration of auto_populate for a subject that
\* had a class left
Iterated ==
    /\ placing # <<>>
    /\ placing[1].op = "auto_populate"
    /\ placing[1].before.classes[placing[1].subject] > 0

\* the least clash load among the blocks that do not hold the subject
Least(st, subject) ==
    CHOOSE least \in {Load(subject, st.blocks[b]) : b \in Free(st, subject)} :
        \A b \in Free(st, subject) : least <= Load(subject, st.blocks[b])

\* the blocks that do not hold the subject and have the least load
Tied(st, subject) ==
    {b \in Free(st, subject) : Load(subject, st.blocks[b]) = Least(st, subject)}

\* C22: whenever an empty block is tied at the minimum clash load for a
\* subject, auto_populate inserts the subject into an empty block and signals
\* no branch, whichever non-empty blocks are tied with it.
C22_EmptyBlockUsedDirectly ==
    Iterated =>
        LET subject == placing[1].subject
            before == placing[1].before
            empty == {b \in Tied(before, subject) : before.blocks[b] = <<>>}
        IN empty # {} =>
              /\ placing[1].result.kind = "ok"
              /\ \E b \in empty : InsertedInto(b)

\* the duplicate set: the blocks tied at the least load that are not empty
Duplicates(st, subject) == {b \in Tied(st, subject) : st.blocks[b] # <<>>}

\* C23: an iteration of auto_populate signals a forced branch exactly when
\* branching is permitted and more than one block is non-empty, does not hold
\* the subject and has the least load; the signal carries all of those
\* blocks, and the iteration that raises it changes neither the blocks, the
\* class counts nor the used set.
C23_ForcedBranch ==
    Iterated =>
        LET subject == placing[1].subject
            before == placing[1].before
            result == placing[1].result
            forced == /\ before.allow_branching
                      /\ Free(before, subject) # {}
                      /\ Cardinality(Duplicates(before, subject)) > 1
        IN /\ result.kind = "branch" <=> forced
           /\ result.kind = "branch" =>
                 /\ result.subject = subject
                 /\ Range(result.options) = Duplicates(before, subject)
                 /\ NoDup(result.options)
                 /\ result.st.blocks = before.blocks
                 /\ result.st.classes = before.classes
                 /\ result.st.used = before.used

\* a branch is signalled while an empty block is there
C23_Witness ==
    /\ Iterated
    /\ placing[1].result.kind = "branch"
    /\ \E b \in DOMAIN placing[1].before.blocks : placing[1].before.blocks[b] = <<>>

\* the node on top handles a BranchRequired and takes up its next option
Forking ==
    /\ phase = "running"
    /\ signal = "none"
    /\ stack # <<>>
    /\ Top.status = "branching"
    /\ Top.options # <<>>
    /\ stack' # stack

\* C24: on a forced branch the node creates exactly one child for each
\* candidate block in turn; the child's state is the parent's state as the
\* signal left it with the subject inserted into that block (its class count
\* one lower), and the child resumes at the process index of the parent.
C24_OneChildPerCandidate ==
    [][Forking =>
          LET parent == Top
              choice == Head(parent.options)
              child == stack'[Len(stack')]
          IN /\ Len(stack') = Len(stack) + 1
             /\ creation_counter' = creation_counter + 1
             /\ child.id = creation_counter
             /\ child.parent = parent.id
             /\ child.status = "pending"
             /\ stack'[Len(stack)] = [parent EXCEPT !.options = Tail(@)]
             /\ child.st.blocks =
                    [parent.st.blocks EXCEPT ![choice] = Append(@, parent.subject)]
             /\ child.st.classes =
                    [parent.st.classes EXCEPT ![parent.subject] = @ - 1]
             /\ child.st.used = parent.st.used \cup {parent.subject}
             /\ child.st.process_index = parent.st.process_index]_vars

\* the child for the last of several candidates was made, at a process after
\* the first
C24_Witness ==
    /\ Len(stack) >= 2
    /\ Top.status = "pending"
    /\ Top.parent = stack[Len(stack) - 1].id
    /\ stack[Len(stack) - 1].status = "branching"
    /\ stack[Len(stack) - 1].options = <<>>
    /\ Top.st.process_index = stack[Len(stack) - 1].st.process_index
    /\ Top.st.process_index > STARTING_PROCESS
    /\ Top.id > stack[Len(stack) - 1].id + 1

\* C25: after a fork, no placement made in a child changes the blocks, the
\* class counts or the used set of the parent or of a sibling: as long as a
\* node that signalled a branch is on the stack its state stays as the signal
\* left it, and the leaves completed so far stay as they were logged.
C25_ForkIsolation ==
    [][phase = "running" /\ phase' = "running" =>
          /\ \A i \in DOMAIN stack :
                (stack[i].status = "branching" /\ i <= Len(stack')) =>
                    /\ stack'[i].id = stack[i].id
                    /\ stack'[i].st = stack[i].st
          /\ \A j \in DOMAIN completed :
                /\ j \in DOMAIN completed'
                /\ completed'[j] = completed[j]]_vars

\* a node whose children have all run and returned, two of them at least
\* having placed further subjects down to a leaf
C25_Witness ==
    /\ phase = "running"
    /\ stack # <<>>
    /\ Top.status = "branching"
    /\ Top.options = <<>>
    /\ creation_counter > Top.id + 2
    /\ Len(completed) >= 2
    /\ \E j \in DOMAIN completed :
          /\ completed[j].id > Top.id
          /\ \E b \in DOMAIN Top.st.blocks :
                Len(completed[j].blocks[b]) > Len(Top.st.blocks[b]) + 1

\* the generated set of the cache the running tree holds
Leaves == IF stale # <<>> THEN stale[1].generated_states ELSE cache[1].generated_states

\* the node on top executes its current process
Executing ==
    /\ phase = "running"
    /\ signal = "none"
    /\ stack # <<>>
    /\ Top.status = "pending"
    /\ stack' # stack

\* the nodes of the stack, state by state: a child is never at an earlier
\* process than its parent, a leaf is past the last process, and a node that
\* forked is not logged as a leaf
PipelineOrdered ==
    \A i \in DOMAIN stack :
          /\ stack[i].st.process_index >= STARTING_PROCESS
          /\ i > 1 => stack[i].st.process_index >= stack[i - 1].st.process_index
          /\ stack[i].status = "leaf" <=> stack[i].st.process_index = NumProcesses
          /\ stack[i].status = "branching" =>
                \A j \in DOMAIN completed : completed[j].id # stack[i].id

\* C26: along every path from the root to a leaf the process index never
\* decreases and the processes are entered in the order PriorityPairs,
\* RemainingPairs, MainProcess, Negligible, each at most once by each node;
\* a state is added to the generated set only when Negligible has completed
\* on it, and a node that forked is never itself recorded as a leaf.
C26_PipelineOrder ==
    /\ [](phase = "running" => PipelineOrdered)
    /\ [][(stack = <<>> /\ stack' # <<>>) =>
              /\ Len(stack') = 1
              /\ stack'[1].status = "pending"
              /\ stack'[1].st.process_index = STARTING_PROCESS]_vars
    /\ [][Executing =>
              LET index == Top.st.process_index
                  next == stack'[Len(stack)]
              IN /\ Len(stack') = Len(stack)
                 /\ next.id = Top.id
                 /\ \/ next.status = "pending" /\ next.st.process_index = index + 1
                    \/ next.status = "branching" /\ next.st.process_index = index
                    \/ next.status = "leaf" /\ index = NumProcesses - 1
                    \/ signal' = "SubjectError" /\ next.st.process_index = index]_vars
    /\ [][(phase = "running" /\ phase' = "running") =>
              /\ \A i \in DOMAIN stack :
                    (i <= Len(stack') /\ stack[i].status # "pending")
                        => stack'[i].status = stack[i].status
              /\ (completed' # completed \/ Leaves' # Leaves) =>
                    /\ Executing
                    /\ Top.st.process_index = NumProcesses - 1
                    /\ stack'[Len(stack)].status = "leaf"
                    /\ completed' = Append(completed, completed'[Len(completed')])
                    /\ completed'[Len(completed')].id = Top.id
                    /\ completed'[Len(completed')].blocks = stack'[Len(stack)].st.blocks
                    /\ Leaves' \subseteq Leaves \cup {stack'[Len(stack)].st}]_vars

\* a leaf below a node that forked at a process after the first: every
\* process was run along its path, MainProcess by the parent and by the child
C26_Witness ==
    /\ phase = "running"
    /\ Len(stack) >= 2
    /\ Top.status = "leaf"
    /\ stack[Len(stack) - 1].status = "branching"
    /\ stack[Len(stack) - 1].st.process_index = 2
    /\ \E g \in Leaves : g.blocks = Top.st.blocks

\* the subjects with a single class in the state the root node starts from
Singles == {o \in DOMAIN node[1].state.classes : node[1].state.classes[o] = 1}

\* the pairs of single-class subjects
SinglePairs == {pair \in Singles \X Singles : pair[1] < pair[2]}

\* the students who chose both subjects of the pair
Clashes(pair) ==
    Cardinality({k \in DOMAIN data :
        Contains(data[k], pair[1]) /\ Contains(data[k], pair[2])})

\* the j-th smallest of the clash counts of all the pairs
Ranked(j) ==
    LET AtMost(v) == Cardinality({pair \in SinglePairs : Clashes(pair) <= v})
        counts == {Clashes(pair) : pair \in SinglePairs}
    IN CHOOSE v \in counts :
          /\ AtMost(v) >= j
          /\ \A w \in counts : AtMost(w) >= j => v <= w

\* the rank below the quantile position among n values, and the rank above it
RankBelow(n) ==
    IF (DEFAULT_PRIORITY_QUARTILE * n) \div 100 < 1 THEN 1
    ELSE (DEFAULT_PRIORITY_QUARTILE * n) \div 100

RankAbove(n) ==
    IF (DEFAULT_PRIORITY_QUARTILE * n) \div 100 + 1 > n THEN n
    ELSE (DEFAULT_PRIORITY_QUARTILE * n) \div 100 + 1

\* the subjects of the pairs whose clash count is at least v
ClashingAtLeast(v) ==
    UNION {{pair[1], pair[2]} : pair \in {q \in SinglePairs : Clashes(q) >= v}}

\* C27: the PriorityPairs stage places exactly the pairs of single-class
\* subjects whose clash count is at or above the 0.75 quantile of the clash
\* counts of all such pairs, one class for each subject of each pair.  The
\* quantile of n values lies between the values ranked just below and just
\* above position 0.75 * n: when PriorityPairs has completed on a node, every
\* subject of a pair at or above the upper of the two is placed, in one block,
\* and no subject outside the pairs at or above the lower one is.
C27_PriorityQuantile ==
    phase = "running" =>
        \A i \in DOMAIN stack :
            (stack[i].status = "pending" /\ stack[i].st.process_index = 1) =>
                LET n == Cardinality(SinglePairs)
                    must == IF n = 0 THEN {} ELSE ClashingAtLeast(Ranked(RankAbove(n)))
                    may == IF n = 0 THEN {} ELSE ClashingAtLeast(Ranked(RankBelow(n)))
                IN /\ must \subseteq stack[i].st.used
                   /\ stack[i].st.used \subseteq may
                   /\ \A o \in stack[i].st.used :
                         Cardinality({b \in DOMAIN stack[i].st.blocks :
                             Contains(stack[i].st.blocks[b], o)}) = 1

\* the students whose choices hold both subjects
Both(a, b) ==
    Cardinality({k \in DOMAIN data : Contains(data[k], a) /\ Contains(data[k], b)})

\* C28: for every pair of subjects (A, B), after any sequence of lookups,
\* the count the memoizing cache holds and uses for (A, B) is the number of
\* students whose choices hold both A and B, and is the one it uses for
\* (B, A): the last lookup answered with the sum of those numbers over the
\* subjects of its block, and every stored count is that number.
C28_MemoIsClashCount ==
    memo # <<>> =>
        /\ \A key \in DOMAIN memo[1].stats.cache :
              /\ key[1] <= key[2]
              /\ memo[1].stats.cache[key] = Both(key[1], key[2])
              /\ memo[1].stats.cache[key] = Both(key[2], key[1])
        /\ memo[1].clashes =
              SumSeq([i \in DOMAIN memo[1].block |->
                         Both(memo[1].block[i], memo[1].subject_code)])

\* C29: when try_against_blocks succeeds for a student, every one of the
\* student's choices is assigned to a block that holds that choice, and no
\* two choices are assigned to the same block.
C29_MatchIsSound ==
    \A key \in DOMAIN ev.successful_options :
        LET handled == ev.successful_options[key]
            choices == cache[1].data[key]
        IN /\ Len(handled) = Len(choices)
           /\ \A c \in DOMAIN choices : \E i \in DOMAIN handled : handled[i][1] = choices[c]
           /\ \A i \in DOMAIN handled :
                 /\ handled[i][2] \in DOMAIN target
                 /\ Contains(target[handled[i][2]], handled[i][1])
           /\ \A i, j \in DOMAIN handled : i # j => handled[i][2] # handled[j][2]

\* a student with three choices succeeded on blocks of which one holds all
\* three choices
C29_Witness ==
    \E key \in DOMAIN ev.successful_options :
        /\ Len(ev.successful_options[key]) = 3
        /\ \E b \in DOMAIN target :
              \A c \in DOMAIN cache[1].data[key] :
                  Contains(target[b], cache[1].data[key][c])

\* the choices can all be assigned to pairwise distinct blocks, each holding
\* its choice
Matchable(blocks, choices) ==
    \E assigned \in [DOMAIN choices -> DOMAIN blocks] :
        /\ \A i, j \in DOMAIN choices : i # j => assigned[i] # assigned[j]
        /\ \A i \in DOMAIN choices : Contains(blocks[assigned[i]], choices[i])

\* C30: a student is recorded as failed against a leaf only if the
\* student's choices cannot be fully matched to it: no assignment of all the
\* choices to pairwise distinct blocks, each holding its choice, exists.
C30_FailedOnlyIfUnmatchable ==
    \A key \in DOMAIN ev.failed_options :
        ~Matchable(target, cache[1].data[key])

\* the number of leading choices that, taken in the declared order, each find
\* the first block outside `taken` that holds them, up to the first that finds
\* none
RECURSIVE LeadingMatched(_, _, _)
LeadingMatched(blocks, choices, taken) ==
    IF choices = <<>> \/ FirstHolding(blocks, Head(choices), taken) = 0 THEN 0
    ELSE 1 + LeadingMatched(blocks, Tail(choices),
                            taken \cup {FirstHolding(blocks, Head(choices), taken)})

\* C31: for a utility built without options (the default configuration), a
\* failed student's retry is made at priority level 2: the student is filed
\* with a PriorityFailed exactly when fewer than 2 leading choices matched in
\* declared order before the first unmatched one, and with the list of partial
\* matches otherwise.
C31_DefaultRetryLevel ==
    failed_priority = NoPriority =>
        \A key \in DOMAIN ev.failed_options :
            LET kept == ev.failed_options[key].priorties
                leading == LeadingMatched(target, cache[1].data[key], {})
            IN (kept.raised = "PriorityFailed") <=> (leading < FAILED_OPTION_PRIORITY)

\* the result is the one sequential evaluation gives for the state: the same
\* blocks, percentage, successful and failed students, the same exception
SameScore(result, sequential) ==
    /\ result.raised = sequential.raised
    /\ result.blocks = sequential.blocks
    /\ result.success_percentage = sequential.success_percentage
    /\ DOMAIN result.successful_options = DOMAIN sequential.successful_options
    /\ DOMAIN result.failed_options = DOMAIN sequential.failed_options

\* the percentages process_states yields for the generated states
SequentialScores ==
    {evaluate_blocks(st.blocks, NodeCache.data).success_percentage :
        st \in NodeCache.generated_states}

\* map was not interrupted from outside
Uninterrupted == pool = <<>> \/ ~pool[1].interrupted

Terminating == signal = "none" /\ signal' \in {"threshold", "limit"}

\* C33: a protocol's termination is raised only by a node that has just run
\* the last stage to its end and whose state has been added to the generated
\* set: never by a node in the middle of a stage or of its branches, and the
\* leaf that raised it is among the generated leaves when the run returns.
C33_TerminationAtLeaf ==
    /\ [][Terminating =>
             /\ Top.status = "pending"
             /\ Top.st.process_index = NumProcesses - 1
             /\ Len(stack') = Len(stack)
             /\ Top'.id = Top.id
             /\ Top'.status = "leaf"
             /\ Top'.st.process_index = NumProcesses
             /\ \E g \in Leaves' : g.blocks = Top'.st.blocks
             /\ Len(completed') = Len(completed) + 1
             /\ LastCompleted(completed').id = Top.id]_vars
    /\ [][TerminationLeaves =>
             /\ Top.status = "leaf"
             /\ LastCompleted(completed).id = Top.id
             /\ \E g \in Leaves' : g.blocks = Top.st.blocks]_vars

\* a child node, made by a fork, has raised a termination as a leaf
C33_Witness ==
    /\ phase = "running"
    /\ signal \in {"threshold", "limit"}
    /\ Len(stack) >= 2
    /\ Top.status = "leaf"
    /\ \E g \in Leaves : g.blocks = Top.st.blocks

\* C34: in every run of a sequence of setup/run cycles, the first and every
\* later one, LimitProtocol(maximum) ends the search early only when more than
\* `maximum` nodes were created for the tree of that run (its root and the
\* children made since).
C34_LimitCountsThisRun ==
    (phase = "running" /\ signal = "limit") =>
        creation_counter - stack[1].id > protocol.maximum

\* the forks on the path from the root to the node that runs: one for every
\* Node.run in progress above the root's
ForksOnPath == Len(stack) - 1

\* the subjects that setup gave two classes or more
MultiClass == {subject \in DOMAIN InitialClasses : InitialClasses[subject] >= 2}

\* the classes the run has to place
ClassesToPlace == SumSeq([i \in 1..Len(options) |-> InitialClasses[options[i]]])

\* C35 as stated: the forks along a path from the root to a leaf number at
\* most the subjects whose initial class count is 2 or more.
C35_ForksBoundedByMultiClass ==
    phase = "running" => ForksOnPath <= Cardinality(MultiClass)

\* C35, amended: the forks along a path from the root to a leaf number at most
\* the classes the run has to place (the sum of the initial class counts);
\* subjects with a single class fork as well.
C35_ForksBoundedByClasses ==
    phase = "running" => ForksOnPath <= ClassesToPlace

\* a leaf is reached below a fork in a run where no subject has two classes,
\* and the node that forked had no empty block
C35_Witness ==
    /\ phase = "running"
    /\ Top.status = "leaf"
    /\ ForksOnPath >= 1
    /\ MultiClass = {}
    /\ \A b \in DOMAIN stack[Len(stack) - 1].st.blocks :
          stack[Len(stack) - 1].st.blocks[b] # <<>>

\* the state has no class left to place: every subject's count is 0 and the
\* subject is in as many blocks as setup gave it classes
FullyPlaced(st) ==
    \A subject \in DOMAIN st.classes :
        /\ st.classes[subject] = 0
        /\ Cardinality(Holding(st, subject)) = InitialClasses[subject]

\* C36: every completed leaf is fully placed.  A node that finished the last
\* stage, and every state stored as generated, has no class left to place:
\* each subject's remaining count is 0 and the subject is in as many blocks as
\* its initial class count, whatever forks were made on the way.
C36_LeavesFullyPlaced ==
    /\ \A i \in DOMAIN stack : stack[i].status = "leaf" => FullyPlaced(stack[i].st)
    /\ \A g \in Generated : FullyPlaced(g)

\* a leaf below a fork made by MainProcess in the middle of a placement of
\* several classes: the subject was in a block already and had two or more
\* classes left when the node forked
C36_Witness ==
    /\ phase = "running"
    /\ Top.status = "leaf"
    /\ Top.st \in Generated
    /\ \E i \in 1..(Len(stack) - 1) :
          /\ stack[i].status = "branching"
          /\ stack[i].st.process_index = 2
          /\ Holding(stack[i].st, stack[i].subject) # {}
          /\ stack[i].st.classes[stack[i].subject] >= 2

\* some block that does not hold the subject takes it
Admitted(st, subject) == \E b \in Free(st, subject) : populate_block(st, subject, b).ok

\* C37: with the class counts setup produces (1 to number_of_blocks each),
\* auto_populate never ends in the fatal "unable to insert subject", every
\* candidate block of a fork takes the subject so that its child runs, and in
\* every state of the search a subject with classes left has a block that does
\* not hold it and admits it.
C37_NoFatalPlacement ==
    /\ [](signal # "SubjectError")
    /\ [](\A i \in DOMAIN stack : \A subject \in DOMAIN stack[i].st.classes :
             stack[i].st.classes[subject] > 0 => Admitted(stack[i].st, subject))
    /\ [][Forking => /\ Len(stack') = Len(stack) + 1
                     /\ Cardinality(Holding(Top'.st, Top.subject))
                            = Cardinality(Holding(Top.st, Top.subject)) + 1]_vars

\* a fork has placed its subject in a candidate block of the child, which
\* runs with a class of that subject still to place
C37_Witness ==
    /\ phase = "running"
    /\ signal = "none"
    /\ Len(stack) >= 2
    /\ Top.status = "pending"
    /\ LET parent == stack[Len(stack) - 1]
       IN /\ parent.status = "branching"
          /\ Cardinality(Holding(Top.st, parent.subject))
                 = Cardinality(Holding(parent.st, parent.subject)) + 1
          /\ Top.st.classes[parent.subject] > 0
          /\ Admitted(Top.st, parent.subject)

\* the classes a state has left to place
Remaining(st) == SumSeq([i \in 1..Len(options) |-> st.classes[options[i]]])

\* the protocol has neither ImmediateEvaluation nor LimitProtocol
NoTermination == ~protocol.immediate /\ ~protocol.limit

\* C38: without an early-termination protocol the search that run() starts
\* always ends, after a full search: every child of a fork has fewer classes
\* left to place than its parent, every process that ran moves the node on to
\* a later one, and a run in progress leads to the return of run() with the
\* search complete.
C38_SearchTerminates ==
    /\ [](\A i \in 1..(Len(stack) - 1) :
             Remaining(stack[i + 1].st) < Remaining(stack[i].st))
    /\ [](StageReady =>
             \A remaining \in RemainingOrders :
                LET c == ready_cache(NodeCache, Top.st, remaining)
                    r == execute(c, Top.st)
                IN  r.kind = "ok" =>
                       continue_process(r.st).process_index
                           > Top.st.process_index)
    /\ (phase = "running" /\ NoTermination)
           ~> (phase = "idle" /\ last = "run_complete")

\* a search without termination protocol has returned complete after forks
\* three deep
C38_Witness ==
    /\ NoTermination
    /\ phase = "idle"
    /\ last = "run_complete"
    /\ creation_counter >= 4
    /\ Cardinality(Generated) >= 2

\* run_with_threshold is at the head of its loop in a generator that is set up
AtIteration == phase = "threshold" /\ sweep.at = "run" /\ ready

\* the class counts that run_with_threshold tracks are within 0..number_of_blocks
TrackerInRange ==
    sweep # NoSweep =>
        \A subject \in DOMAIN sweep.tracker :
            sweep.tracker[subject] \in 0..number_of_blocks

\* the sum of the tracked class counts
Tracked(s) == SumSeq([i \in 1..Len(options) |-> s.tracker[options[i]]])

\* C39 as stated: run_with_threshold always ends in an iteration whose best
\* success percentage is 0 or in which no class needs adjusting, and no tracked
\* class count leaves 0..number_of_blocks.
C39_ThresholdEnds ==
    /\ []TrackerInRange
    /\ AtIteration ~> (phase = "idle" /\ last = "threshold_done")

\* C39 (amended): run_with_threshold always ends. For a population with a
\* student it ends in an iteration whose best success percentage is 0 or in
\* which no class needs adjusting, every iteration that goes on lowers the sum
\* of the tracked class counts, and no tracked count leaves
\* 0..number_of_blocks; for a population without students the first evaluation
\* raises AssertionError out of run_with_threshold.
C39_ThresholdEndsWithStudents ==
    /\ []TrackerInRange
    /\ [][Adjusting /\ sweep'.at = "run" => Tracked(sweep') < Tracked(sweep)]_vars
    /\ (AtIteration /\ data # <<>>) ~> (phase = "idle" /\ last = "threshold_done")
    /\ (AtIteration /\ data = <<>>)
           ~> (phase = "idle" /\ last = "AssertionError" /\ sweep = NoSweep)

\* run_with_threshold has returned after more than one iteration, in which a
\* subject lost its last class
C39_Witness ==
    /\ data # <<>>
    /\ phase = "idle"
    /\ last = "threshold_done"
    /\ creation_counter >= 3
    /\ \E subject \in DOMAIN node[1].state.classes :
          node[1].state.classes[subject] = 0

\* C40: scoring a leaf leaves its inputs unchanged: during and after every
\* call of try_against_blocks and prioritise_failed, and after evaluate_blocks,
\* the lists of blocks and every student's list of choices hold what they held
\* before; so every scoring of the same list of blocks gives the same result,
\* whatever was scored before it, and that result is the one evaluate_blocks
\* gives for the blocks and choices as they were at the start.
C40_ScoringKeepsInputs ==
    /\ \A id \in DOMAIN heap.before : heap.mem[id] = heap.before[id]
    /\ \A i, j \in DOMAIN heap.done :
          heap.done[i].leaf = heap.done[j].leaf => heap.done[i].ev = heap.done[j].ev
    /\ \A i \in DOMAIN heap.done :
          heap.done[i].ev = evaluate_blocks(heap.before[heap.done[i].leaf], data)

\* a second scoring has ended, after one of other blocks that had a student
\* matched and a student failed and prioritised, while the copy of the blocks
\* made for the last call had a block set to None
C40_Witness ==
    /\ Len(heap.done) = 1
    /\ heap.leaf # 0
    /\ heap.leaf # heap.done[1].leaf
    /\ heap.before[1] # heap.before[2]
    /\ heap.done[1].ev.successful_options # <<>>
    /\ \E key \in DOMAIN heap.done[1].ev.failed_options :
          heap.done[1].ev.failed_options[key].priorties.handled # <<>>
    /\ heap.try # <<>>
    /\ \E b \in DOMAIN heap.mem[heap.try[1].blocks] :
          heap.mem[heap.try[1].blocks][b] = None
    /\ heap.mem[heap.try[1].options] # heap.mem[heap.choices[heap.key]]

=============================================================================
